---------------------------- MODULE Spec2Model ----------------------------
(***************************************************************************)
(* The draft core of Oogway: one series (oogway/models/series_state.py)    *)
(* driven by DraftCog (oogway/cogs/draft.py).                              *)
(*                                                                         *)
(* The asyncio tasks that touch the series are the on_start_draft task     *)
(* (task 0) and one win_a / win_b callback per ResultView (task v is the   *)
(* callback holding the lock of view v).  A step of the model is the code  *)
(* a task runs between two awaits.                                         *)
(***************************************************************************)
EXTENDS Integers, Sequences, FiniteSets, TLC

VARIABLES
    CHAMPS_CACHE,      \* draft.py:37   ids of the loaded catalog
    seed,              \* draft.py:134  state of the random generator
    series_by_thread,  \* draft.py:397  TRUE iff the series is in the registry
    bo, team_a, team_b, captain_a, captain_b,
    captain_a_name, captain_b_name,
    score_a, score_b, fearless_pool, games,     \* SeriesState fields
    tasks,             \* per task: position and locals; per view: alive
    crashed,           \* a draft loop has raised out of random_champ
    outcome,           \* the final embed sent: "None", "A", "B" or "tie"
    stale,             \* number of ResultView messages whose delete failed
    race_turns,        \* number of turns taken while another chain was active
    phase,             \* custom_5v5.py: the step the lobby flow is at
    join,              \* custom_5v5.py:134  JoinView: players, bo, captain_pick
    confirm,           \* custom_5v5.py:369, 492  TeamConfirmView / CaptainPickView
    ready_view,        \* views/ready.py:4   ReadyView and its on_ready arguments
    TURN_TIME,         \* draft.py:457  seconds a captain has for one turn
    DD_VERSION_CACHE,  \* draft.py:33   Data Dragon version, 0 when empty
    DD_VERSION_CACHE_TIME,  \* draft.py:34
    CHAMPS_CACHE_TIME, \* draft.py:38
    ALIASES,           \* draft.py:39   alias -> champion id
    loaders,           \* per running load_champs call: position and locals
    clock,             \* time.time()
    server,            \* the version Data Dragon serves
    canon,             \* the last value canonicalize returned
    request,           \* riot/client.py:85  one _request call: position and locals
    riot,              \* riot/client.py:31  RiotClient: throttle state and callers
    calls,             \* custom_5v5.py:175  JoinView callbacks suspended at an await
    match,             \* custom_5v5.py:900  _match_lock, _current_match, /5v5 calls
    META,              \* draft.py:146  the value of the Redis key meta:champions
    meta_calls,        \* per _meta_update_for_game call: its game, its data
    meta_warnings,     \* draft.py:764  updates that failed and were logged
    other              \* the win reports of a series in another thread

series == <<bo, team_a, team_b, captain_a, captain_b, captain_a_name,
            captain_b_name, score_a, score_b, fearless_pool, games>>
(* The lobby that dispatches start_draft *)
lobbyVars == <<phase, join, confirm, ready_view>>

(* The champion catalog of draft.py, where load_champs is a process *)
catalogVars == <<DD_VERSION_CACHE, DD_VERSION_CACHE_TIME, CHAMPS_CACHE_TIME,
                 ALIASES, loaders, clock, server, canon>>

(* What neither the lobby nor the draft of one series writes *)
(* The statistics of draft.py:145-179 *)
metaVars == <<META, meta_calls, meta_warnings, other>>

(* The Riot API client *)
riotVars == <<request, riot>>

(* The /5v5 command and the callbacks of its lobby *)
commandVars == <<calls, match>>

beyond == <<catalogVars, riotVars, commandVars, metaVars>>

(* What the draft of one series never writes *)
annex == <<lobbyVars, TURN_TIME, beyond>>

(* The draft of one series *)
draftVars == <<CHAMPS_CACHE, seed, series_by_thread, series, tasks, crashed,
               outcome, stale, race_turns>>

vars == <<draftVars, annex>>

-----------------------------------------------------------------------------
(* Bounds of the exploration *)
MaxGames == 3          \* games appended to one series
MaxRaceGames == 4      \* the same, where only deadlines end the waits
MaxStale == 1          \* failed deletions of a ResultView message
MaxRaceTurns == 2      \* turns explored while two chains run at once
RngMod == 2            \* distinct states of the random generator
SmallCatalog == 19     \* a catalog too small for one draft
LargeCatalog == 52     \* a catalog large enough for every explored draft

(* Participants: captains 1 and 2, other players 3 and 4 *)
TeamA0 == <<1, 3>>
TeamB0 == <<2, 4>>
Users == {1, 2, 3}
NoChamp == 0           \* canonicalize() returned None

-----------------------------------------------------------------------------
(* draft.py:122-128 *)
DRAFT_ORDER ==
    <<"A", "B", "A", "B", "A", "B">>
    \o <<"A", "B", "B", "A", "A", "B">>
    \o <<"B", "A", "B", "A">>
    \o <<"B", "A", "A", "B">>
BAN_INDEXES == {0, 1, 2, 3, 4, 5, 12, 13, 14, 15}

(* DRAFT_ORDER[ptr] with the 0-based index of the code *)
SideAt(ptr) == DRAFT_ORDER[ptr + 1]

(* series_state.py:13-22 *)
Game == [picks_a |-> <<>>, picks_b |-> <<>>, bans_a |-> <<>>, bans_b |-> <<>>,
         winner |-> "None"]

Range(s) == {s[i] : i \in 1..Len(s)}

(* series_state.py:75-78 *)
current_game == games[Len(games)]

finished_AfterAnyWin == score_a + score_b >= 1

(* series_state.py:84-87 *)
finished ==
    LET target == (bo \div 2) + 1
    IN  score_a >= target \/ score_b >= target

(* series_state.py:89-91 *)
get_all_picked_champs ==
    UNION {Range(games[g].picks_a) \cup Range(games[g].picks_b) : g \in 1..Len(games)}

(* The SeriesState object as one value *)
SeriesState ==
    [bo |-> bo, team_a |-> team_a, team_b |-> team_b,
     captain_a |-> captain_a, captain_b |-> captain_b,
     captain_a_name |-> captain_a_name, captain_b_name |-> captain_b_name,
     score_a |-> score_a, score_b |-> score_b,
     fearless_pool |-> fearless_pool, games |-> games]

swap_sides_Sequential(s) ==
    [s EXCEPT !.team_a = s.team_b, !.team_b = s.team_a,
              !.captain_a = s.captain_b, !.captain_b = s.captain_a,
              !.captain_a_name = s.captain_b_name,
              !.captain_b_name = s.captain_a_name,
              !.score_a = s.score_b, !.score_b = s.score_b]

swap_sides_KeepScores(s) ==
    [s EXCEPT !.team_a = s.team_b, !.team_b = s.team_a,
              !.captain_a = s.captain_b, !.captain_b = s.captain_a,
              !.captain_a_name = s.captain_b_name,
              !.captain_b_name = s.captain_a_name]

(* series_state.py:93-98: the object after swap_sides *)
swap_sides(s) ==
    [s EXCEPT !.team_a = s.team_b, !.team_b = s.team_a,
              !.captain_a = s.captain_b, !.captain_b = s.captain_a,
              !.captain_a_name = s.captain_b_name,
              !.captain_b_name = s.captain_a_name,
              !.score_a = s.score_b, !.score_b = s.score_a]

-----------------------------------------------------------------------------
(* Tasks.  pc is the await a task is suspended at:                         *)
(*   "draft"        _draft_loop, waiting for the captain or the deadline    *)
(*   "defer"        win_a / win_b, lock taken, awaiting response.defer()    *)
(*   "meta"         _report, awaiting _meta_update_for_game                 *)
(*   "offer"        awaiting ContinueView._done                             *)
(*   "side_choice"  awaiting SideChoiceView._done                           *)
(*   "ready"        awaiting CaptainsReadyView._done                        *)
(*   "delete"       win_a / win_b, awaiting inter.message.delete()          *)
(*   "idle"         no callback of this view is running (lock free)         *)
(*   "done" / "crashed"   the on_start_draft task has returned / raised     *)
IdleTask(alive) ==
    [pc |-> "idle", alive |-> alive, side |-> "None", ptr |-> 0, taken |-> {},
     cap |-> 0, kind |-> "None", go_next |-> "None", swap_chosen |-> "None",
     done |-> FALSE, loser |-> 0, ready |-> {}, cap_a |-> 0, cap_b |-> 0,
     resp |-> "None"]
(* kind is the handler _report called in this callback ("None" before);    *)
(* go_next, swap_chosen, ready, done are the fields of the view the task    *)
(* waits on; loser, cap_a, cap_b the users that view was built for; resp    *)
(* the followup _report answered the click with.                            *)

TaskIds == DOMAIN tasks
Views == {v \in TaskIds : v > 0}

Active(t) == tasks[t].pc \notin {"idle", "done", "crashed"}
OtherActive(t) == \E u \in TaskIds : u # t /\ Active(u)

(* A turn is explored if the task runs alone or the race bound allows it *)
CanTurn(t) == ~OtherActive(t) \/ race_turns < MaxRaceTurns
TurnCount(t) == IF OtherActive(t) THEN race_turns + 1 ELSE race_turns

(* draft.py:465 *)
CaptainOf(side, ca, cb) == IF side = "A" THEN ca ELSE cb

(* The locals of a task entering _draft_loop (draft.py:457-466) *)
LoopStart(task, ca, cb) ==
    [task EXCEPT !.pc = "draft", !.ptr = 0, !.taken = {},
                 !.cap = CaptainOf(SideAt(0), ca, cb),
                 !.go_next = "None", !.swap_chosen = "None",
                 !.done = FALSE, !.loser = 0, !.ready = {}, !.cap_a = 0,
                 !.cap_b = 0, !.resp = "None"]

-----------------------------------------------------------------------------
(* A view that does not exist (not yet posted, or stopped) *)
NoView == [kind |-> "none"]

(* The lobby has dispatched start_draft and keeps no view *)
LobbyOver ==
    /\ phase = "draft"
    /\ join = NoView
    /\ confirm = NoView
    /\ ready_view = NoView

(* canonicalize has not been called *)
NoCanon == [called |-> FALSE, name |-> <<>>, id |-> <<>>]

(* load_champs has run once and no call is in progress.  The draft reads    *)
(* CHAMPS_CACHE only; the alias table is kept out of its state.             *)
CatalogLoaded ==
    /\ DD_VERSION_CACHE = 1 /\ DD_VERSION_CACHE_TIME = 0
    /\ CHAMPS_CACHE_TIME = 0
    /\ ALIASES = <<>>
    /\ loaders = <<>>
    /\ clock = 0
    /\ server = 1
    /\ canon = NoCanon

(* No Riot API request is in progress *)
NoRequest == request = [pc |-> "none"]

(* riot/client.py:34-43: a client that has sent nothing *)
NoThrottle ==
    riot = [req_times |-> <<>>, lock |-> 0, now |-> 0, callers |-> <<>>,
            gets |-> <<>>]

(* draft.py:150-153: no statistics are stored and no update is running *)
NoMeta == [picks |-> <<>>, bans |-> <<>>, wins |-> <<>>]

MetaIdle ==
    /\ META = NoMeta
    /\ meta_calls = <<>>
    /\ meta_warnings = 0
    /\ other = [pc |-> "idle", reported |-> 0]

(* No JoinView callback is suspended and /5v5 has not been invoked *)
NoCommand ==
    /\ calls = [joining |-> {}, posted |-> 0]
    /\ match = [lock |-> 0, current_match |-> FALSE, commands |-> <<>>]

Elsewhere ==
    CatalogLoaded /\ NoRequest /\ NoThrottle /\ NoCommand /\ MetaIdle

(* on_start_draft (draft.py:430-452) has run: SeriesState.new, registry     *)
(* insert, and the task is in the first turn of _draft_loop.                *)
Init ==
    /\ CHAMPS_CACHE \in {1..SmallCatalog, 1..LargeCatalog}
    /\ seed \in 0..(RngMod - 1)
    /\ series_by_thread = TRUE
    /\ bo \in {1, 3, 5}
    /\ team_a = TeamA0 /\ team_b = TeamB0
    /\ captain_a = 1 /\ captain_b = 2
    /\ captain_a_name = "name1" /\ captain_b_name = "name2"
    /\ score_a = 0 /\ score_b = 0
    /\ fearless_pool = {}
    /\ games = <<Game>>
    /\ tasks = (0 :> LoopStart(IdleTask(FALSE), 1, 2))
    /\ crashed = FALSE
    /\ outcome = "None"
    /\ stale = 0
    /\ race_turns = 0
    /\ LobbyOver
    /\ TURN_TIME = 60
    /\ Elsewhere

-----------------------------------------------------------------------------
(* _draft_loop *)

random_pool_IgnoresFearless(taken) == {c \in CHAMPS_CACHE : c \notin taken}

(* draft.py:133: the pool random_champ draws from *)
random_pool(taken) ==
    {c \in CHAMPS_CACHE : c \notin taken /\ c \notin fearless_pool}

(* draft.py:134: random.choice(pool); pool is in catalog order and the     *)
(* generator yields the index                                               *)
random_champ(taken) ==
    LET pool == random_pool(taken)
        k == seed % Cardinality(pool)
    IN  CHOOSE c \in pool : Cardinality({d \in pool : d < c}) = k

Min(S) == CHOOSE c \in S : \A d \in S : c <= d

(* The champion texts a captain sends during a turn, after canonicalize     *)
(* (draft.py:531): an unknown text, a legal champion, a champion already    *)
(* taken in this loop, a champion of the fearless pool.                     *)
Typed(taken) ==
    {NoChamp}
    \cup (IF random_pool(taken) = {} THEN {} ELSE {random_champ(taken)})
    \cup (IF taken = {} THEN {} ELSE {Min(taken)})
    \cup (IF fearless_pool \ taken = {} THEN {} ELSE {Min(fearless_pool \ taken)})

(* draft.py:534, 546: the message is accepted as the turn's champion *)
Accepted(cand, taken) ==
    /\ cand # NoChamp
    /\ ~(cand \in taken \/ cand \in fearless_pool)

RecordedGame_BothSides(game, side, is_ban, champ_id) ==
    IF is_ban
    THEN [game EXCEPT !.bans_a = Append(@, champ_id),
                      !.bans_b = Append(@, champ_id)]
    ELSE [game EXCEPT !.picks_a = Append(@, champ_id),
                      !.picks_b = Append(@, champ_id)]

(* draft.py:573-577: the current game after the append *)
RecordedGame(game, side, is_ban, champ_id) ==
    IF is_ban
    THEN IF side = "A"
         THEN [game EXCEPT !.bans_a = Append(@, champ_id)]
         ELSE [game EXCEPT !.bans_b = Append(@, champ_id)]
    ELSE IF side = "A"
         THEN [game EXCEPT !.picks_a = Append(@, champ_id)]
         ELSE [game EXCEPT !.picks_b = Append(@, champ_id)]

RecordedPool_BansToo(is_ban, champ_id) == fearless_pool \cup {champ_id}

RecordedPool_Off(is_ban, champ_id) == fearless_pool

(* draft.py:578 *)
RecordedPool(is_ban, champ_id) ==
    IF is_ban THEN fearless_pool ELSE fearless_pool \cup {champ_id}

(* draft.py:572-594: record the turn of task t, advance, and at the end of  *)
(* the loop send the recap with a new ResultView                            *)
Record(t, champ_id) ==
    LET ptr == tasks[t].ptr
        side == SideAt(ptr)
        is_ban == ptr \in BAN_INDEXES
        next == ptr + 1
        new_view == Cardinality(TaskIds)
    IN  /\ games' = [games EXCEPT ![Len(games)] =
                        RecordedGame(current_game, side, is_ban, champ_id)]
        /\ fearless_pool' = RecordedPool(is_ban, champ_id)
        /\ IF next < Len(DRAFT_ORDER)
           THEN tasks' = [tasks EXCEPT
                    ![t].ptr = next,
                    ![t].taken = @ \cup {champ_id},
                    ![t].cap = CaptainOf(SideAt(next), captain_a, captain_b)]
           ELSE tasks' = [tasks EXCEPT
                    ![t] = [IdleTask(tasks[t].alive) EXCEPT
                              !.pc = IF t = 0 THEN "done" ELSE "delete"]]
                    @@ (new_view :> IdleTask(TRUE))
        /\ race_turns' = TurnCount(t)
        /\ UNCHANGED <<annex, CHAMPS_CACHE, seed, series_by_thread, bo, team_a,
                       team_b, captain_a, captain_b, captain_a_name,
                       captain_b_name, score_a, score_b, crashed, outcome,
                       stale>>

(* draft.py:480, 511-553: a message in the thread during the turn of t *)
Message(t, author, cand) ==
    /\ tasks[t].pc = "draft"
    /\ CanTurn(t)
    /\ author = tasks[t].cap
    /\ Accepted(cand, tasks[t].taken)
    /\ Record(t, cand)

(* draft.py:496, 558-581: the deadline passes; random_champ raises          *)
(* IndexError on an empty pool, which ends the task (and releases the       *)
(* lock of win_a / win_b without deleting the message)                      *)
Timeout(t) ==
    /\ tasks[t].pc = "draft"
    /\ CanTurn(t)
    /\ IF random_pool(tasks[t].taken) = {}
       THEN /\ tasks' = [tasks EXCEPT ![t] =
                    [IdleTask(tasks[t].alive) EXCEPT
                        !.pc = IF t = 0 THEN "crashed" ELSE "idle"]]
            /\ crashed' = TRUE
            /\ UNCHANGED <<annex, CHAMPS_CACHE, seed, series_by_thread, series,
                           outcome, stale, race_turns>>
       ELSE Record(t, random_champ(tasks[t].taken))


-----------------------------------------------------------------------------
(* ResultView and _report *)

(* draft.py:760, 765: _meta_update_for_game is called for g, the game of    *)
(* index n; data is what _meta_load returned, once it has                    *)
MetaCall(n) == [g |-> n, loaded |-> FALSE, data |-> NoMeta]

(* dict without one key *)
Without(d, k) == [x \in DOMAIN d \ {k} |-> d[x]]

(* Every user passes *)
ResultView_guard_Anyone(user) == TRUE

(* draft.py:214: the user is one of the captains of the series *)
ResultView_guard(user) == user \in {captain_a, captain_b}

(* draft.py:212-227 (win_a) and 235-239 (win_b): the guard, then the lock   *)
(* is taken and the callback awaits response.defer()                        *)
Click(v, user, side) ==
    /\ v \in Views
    /\ tasks[v].alive
    /\ ResultView_guard(user)
    /\ tasks[v].pc = "idle"
    /\ \A u \in Views : tasks[u].pc # "delete"
    /\ tasks' = [tasks EXCEPT ![v].pc = "defer", ![v].side = side]
    /\ UNCHANGED <<annex, CHAMPS_CACHE, seed, series_by_thread, series, crashed,
                   outcome, stale, race_turns>>

SeriesUnknown_Unchecked == FALSE

(* draft.py:746-748: the thread has no series in the registry *)
SeriesUnknown == ~series_by_thread

AlreadyReported_Unchecked == FALSE

(* draft.py:750: the current game already has a winner *)
AlreadyReported == current_game.winner # "None"

Scored_EitherSide(score, own, side) == score + 1

(* draft.py:755-756: score += (side == own) *)
Scored(score, own, side) == score + (IF side = own THEN 1 ELSE 0)

(* draft.py:741-757: _report up to the await of the statistics update *)
Report(v) ==
    /\ tasks[v].pc = "defer"
    /\ IF SeriesUnknown
       THEN /\ tasks' = [tasks EXCEPT ![v].pc = "delete",
                                      ![v].resp = "unknown_series"]
            /\ UNCHANGED <<games, score_a, score_b, meta_calls>>
       ELSE IF AlreadyReported
       THEN /\ tasks' = [tasks EXCEPT ![v].pc = "delete",
                                      ![v].resp = "already_reported"]
            /\ UNCHANGED <<games, score_a, score_b, meta_calls>>
       ELSE /\ games' = [games EXCEPT ![Len(games)].winner = tasks[v].side]
            /\ score_a' = Scored(score_a, "A", tasks[v].side)
            /\ score_b' = Scored(score_b, "B", tasks[v].side)
            /\ tasks' = [tasks EXCEPT ![v].pc = "meta"]
            /\ meta_calls' = (v :> MetaCall(Len(games))) @@ meta_calls
    /\ UNCHANGED <<lobbyVars, TURN_TIME, catalogVars, riotVars,
                   commandVars, META,
                   meta_warnings, other, CHAMPS_CACHE, seed, series_by_thread,
                   bo, team_a, team_b, captain_a, captain_b, captain_a_name,
                   captain_b_name, fearless_pool, crashed, outcome, stale,
                   race_turns>>

(* draft.py:766-793: which handler _report calls *)
Handler ==
    IF finished
    THEN IF bo = 1 THEN "bo1_end"
         ELSE IF bo = 3 /\ score_a = 1 /\ score_b = 1 THEN "bo3_tie"
         ELSE IF bo = 3 THEN "bo3_end"
         ELSE IF bo = 5 /\ score_a = 2 /\ score_b = 2 THEN "bo5_tie"
         ELSE "victory"
    ELSE "continue"

NextBo_AlwaysFive(kind) == 5

NextBo_AlwaysThree(kind) == 3

(* draft.py:797, 819, 852, 874 *)
NextBo(kind) ==
    CASE kind = "bo1_end" -> 3
      [] kind = "bo3_tie" -> 3
      [] kind = "bo3_end" -> 5
      [] kind = "bo5_tie" -> 5

IsTied(kind) == kind \in {"bo3_tie", "bo5_tie"}

ToSideChoice_Winner(task) ==
    [task EXCEPT !.pc = "side_choice",
                 !.loser = IF task.side = "A" THEN captain_a ELSE captain_b,
                 !.swap_chosen = "None", !.done = FALSE]

(* draft.py:917-927: the task posts the SideChoiceView *)
ToSideChoice(task) ==
    [task EXCEPT !.pc = "side_choice",
                 !.loser = IF task.side = "A" THEN captain_b ELSE captain_a,
                 !.swap_chosen = "None", !.done = FALSE]

AfterPop_Kept == series_by_thread

(* draft.py:915, 845, 900: series_by_thread.pop(channel.id, None) *)
AfterPop == FALSE

(* draft.py:907: the roster mentioned in the final embed *)
winners(side) == IF side = "A" THEN team_a ELSE team_b

(* draft.py:905-915 and 839-845, 894-900: final embed, registry pop; the    *)
(* callback then awaits the deletion of its ResultView message              *)
ToFinal(task) ==
    [task EXCEPT !.pc = "delete", !.done = FALSE]

(* draft.py:759-793: the statistics update returned (or failed, which is    *)
(* only logged); _report dispatches on the state of the series              *)
Proceed(v) ==
    LET h == Handler
    IN  IF h = "victory"
        THEN /\ tasks' = [tasks EXCEPT ![v] = ToFinal([@ EXCEPT !.kind = h])]
             /\ series_by_thread' = AfterPop
             /\ outcome' = tasks[v].side
        ELSE IF h = "continue"
        THEN /\ tasks' = [tasks EXCEPT
                     ![v] = ToSideChoice([@ EXCEPT !.kind = h])]
             /\ UNCHANGED <<series_by_thread, outcome>>
        ELSE /\ tasks' = [tasks EXCEPT ![v].pc = "offer", ![v].kind = h,
                                       ![v].go_next = "None",
                                       ![v].done = FALSE]
             /\ UNCHANGED <<series_by_thread, outcome>>

(* dict.get(cid, 0) *)
Get(d, cid) == IF cid \in DOMAIN d THEN d[cid] ELSE 0

(* draft.py:170, 172, 176: d[cid] = d.get(cid, 0) + 1 for each cid of a list *)
RECURSIVE Counted(_, _)
Counted(d, cids) ==
    IF cids = <<>> THEN d
    ELSE Counted((Head(cids) :> Get(d, Head(cids)) + 1) @@ d, Tail(cids))

(* The winners' wins are not counted *)
MetaUpdated_NoWins(data, g, winner_side) ==
    [picks |-> Counted(data.picks, g.picks_a \o g.picks_b),
     bans |-> Counted(data.bans, g.bans_a \o g.bans_b),
     wins |-> data.wins]

(* draft.py:167-177: the counters of one game added to the loaded data *)
MetaUpdated(data, g, winner_side) ==
    [picks |-> Counted(data.picks, g.picks_a \o g.picks_b),
     bans |-> Counted(data.bans, g.bans_a \o g.bans_b),
     wins |-> Counted(data.wins,
                      IF winner_side = "A" THEN g.picks_a ELSE g.picks_b)]

(* A failed update leaves _report *)
Caught_Never == FALSE

(* draft.py:761-764: try / except Exception around the update *)
Caught == TRUE

(* What follows an update that raised: the warning and the rest of _report  *)
(* when the exception is caught, the end of the callback when it is not     *)
AfterFailure(v) ==
    IF Caught
    THEN /\ meta_warnings' = meta_warnings + 1
         /\ Proceed(v)
    ELSE /\ tasks' = [tasks EXCEPT ![v] = IdleTask(tasks[v].alive)]
         /\ UNCHANGED <<meta_warnings, series_by_thread, outcome>>

(* draft.py:148-150, 761-764: r_get raises (Redis cannot be reached); the   *)
(* exception is logged and _report goes on                                  *)
AfterMeta(v) ==
    /\ tasks[v].pc = "meta"
    /\ meta_calls' = Without(meta_calls, v)
    /\ AfterFailure(v)
    /\ UNCHANGED <<lobbyVars, TURN_TIME, catalogVars, riotVars,
                   commandVars, META, other,
                   CHAMPS_CACHE, seed, series, crashed, stale, race_turns>>

(* draft.py:165-179: r_get answers; the counters of the game are added to   *)
(* the loaded data and the callback awaits r_set                            *)
MetaLoaded(v) ==
    /\ tasks[v].pc = "meta"
    /\ tasks' = [tasks EXCEPT ![v].pc = "meta_save"]
    /\ meta_calls' = [meta_calls EXCEPT
            ![v].loaded = TRUE,
            ![v].data = MetaUpdated(META, games[meta_calls[v].g], tasks[v].side)]
    /\ UNCHANGED <<lobbyVars, TURN_TIME, catalogVars, riotVars,
                   commandVars, META,
                   meta_warnings, other, CHAMPS_CACHE, seed, series_by_thread,
                   series, crashed, outcome, stale, race_turns>>

(* draft.py:158-160, 179, 761-793: r_set stores the data, or raises and     *)
(* the exception is logged; then _report goes on                            *)
MetaSaved(v, ok) ==
    /\ tasks[v].pc = "meta_save"
    /\ meta_calls' = Without(meta_calls, v)
    /\ IF ok
       THEN /\ META' = meta_calls[v].data
            /\ Proceed(v)
            /\ UNCHANGED meta_warnings
       ELSE /\ AfterFailure(v)
            /\ UNCHANGED META
    /\ UNCHANGED <<lobbyVars, TURN_TIME, catalogVars, riotVars,
                   commandVars, other,
                   CHAMPS_CACHE, seed, series, crashed, stale, race_turns>>

(* draft.py:359-371, 373-385: a click on the ContinueView *)
ContinueClick(v, user, go) ==
    /\ tasks[v].pc = "offer"
    /\ user \in {captain_a, captain_b}
    /\ tasks' = [tasks EXCEPT ![v].go_next = IF go THEN "True" ELSE "False",
                              ![v].done = TRUE]
    /\ UNCHANGED <<annex, CHAMPS_CACHE, seed, series_by_thread, series, crashed,
                   outcome, stale, race_turns>>

(* draft.py:387-390 *)
ContinueTimeout(v) ==
    /\ tasks[v].pc = "offer"
    /\ tasks[v].go_next = "None"
    /\ tasks' = [tasks EXCEPT ![v].go_next = "False", ![v].done = TRUE]
    /\ UNCHANGED <<annex, CHAMPS_CACHE, seed, series_by_thread, series, crashed,
                   outcome, stale, race_turns>>

(* draft.py:804-815, 831-848, 859-870, 886-903: the handler resumes after   *)
(* _done and the deletion of the offer                                      *)
ContinueResolved(v) ==
    /\ tasks[v].pc = "offer"
    /\ tasks[v].done
    /\ LET kind == tasks[v].kind
           go == tasks[v].go_next = "True"
       IN  IF go
           THEN /\ bo' = IF IsTied(kind) THEN bo ELSE NextBo(kind)
                /\ tasks' = [tasks EXCEPT ![v] = ToSideChoice(@)]
                /\ UNCHANGED <<series_by_thread, outcome>>
           ELSE /\ tasks' = [tasks EXCEPT ![v] = ToFinal(@)]
                /\ series_by_thread' = AfterPop
                /\ outcome' = IF IsTied(kind) THEN "tie" ELSE tasks[v].side
                /\ UNCHANGED bo
    /\ UNCHANGED <<annex, CHAMPS_CACHE, seed, team_a, team_b, captain_a, captain_b,
                   captain_a_name, captain_b_name, score_a, score_b,
                   fearless_pool, games, crashed, stale, race_turns>>

(* draft.py:257-291: a click on the SideChoiceView *)
SideClick(v, user, swap) ==
    /\ tasks[v].pc = "side_choice"
    /\ user = tasks[v].loser
    /\ tasks' = [tasks EXCEPT
            ![v].swap_chosen = IF swap THEN "True" ELSE "False",
            ![v].done = TRUE]
    /\ UNCHANGED <<annex, CHAMPS_CACHE, seed, series_by_thread, series, crashed,
                   outcome, stale, race_turns>>

(* draft.py:293-296 *)
SideTimeout(v) ==
    /\ tasks[v].pc = "side_choice"
    /\ tasks[v].swap_chosen = "None"
    /\ tasks' = [tasks EXCEPT ![v].swap_chosen = "False", ![v].done = TRUE]
    /\ UNCHANGED <<annex, CHAMPS_CACHE, seed, series_by_thread, series, crashed,
                   outcome, stale, race_turns>>

(* draft.py:928-939: after _done, swap_sides if chosen, then the ready      *)
(* check is posted for the captains as they are now                         *)
SideResolved(v) ==
    /\ tasks[v].pc = "side_choice"
    /\ tasks[v].done
    /\ LET s == IF tasks[v].swap_chosen = "True"
                THEN swap_sides(SeriesState)
                ELSE SeriesState
       IN  /\ bo' = s.bo
           /\ team_a' = s.team_a
           /\ team_b' = s.team_b
           /\ captain_a' = s.captain_a
           /\ captain_b' = s.captain_b
           /\ captain_a_name' = s.captain_a_name
           /\ captain_b_name' = s.captain_b_name
           /\ score_a' = s.score_a
           /\ score_b' = s.score_b
           /\ fearless_pool' = s.fearless_pool
           /\ games' = s.games
           /\ tasks' = [tasks EXCEPT
                    ![v].pc = "ready", ![v].ready = {}, ![v].done = FALSE,
                    ![v].cap_a = s.captain_a, ![v].cap_b = s.captain_b,
                    ![v].swap_chosen = "None", ![v].loser = 0]
    /\ UNCHANGED <<annex, CHAMPS_CACHE, seed, series_by_thread, crashed, outcome,
                   stale, race_turns>>

BothReady_Either(ready, cap_a, cap_b) == cap_a \in ready \/ cap_b \in ready

(* draft.py:322, 337 *)
BothReady(ready, cap_a, cap_b) == cap_a \in ready /\ cap_b \in ready

(* draft.py:310-338: ready_a / ready_b toggle the captain's readiness *)
ReadyClick(v, user, button) ==
    /\ tasks[v].pc = "ready"
    /\ LET who == IF button = "A" THEN tasks[v].cap_a ELSE tasks[v].cap_b
           ready == IF who \in tasks[v].ready
                    THEN tasks[v].ready \ {who}
                    ELSE tasks[v].ready \cup {who}
       IN  /\ user = who
           /\ tasks' = [tasks EXCEPT
                    ![v].ready = ready,
                    ![v].done = @ \/ BothReady(ready, tasks[v].cap_a,
                                                tasks[v].cap_b)]
    /\ UNCHANGED <<annex, CHAMPS_CACHE, seed, series_by_thread, series, crashed,
                   outcome, stale, race_turns>>

(* draft.py:340-341 *)
ReadyTimeout(v) ==
    /\ tasks[v].pc = "ready"
    /\ tasks' = [tasks EXCEPT ![v].done = TRUE]
    /\ UNCHANGED <<annex, CHAMPS_CACHE, seed, series_by_thread, series, crashed,
                   outcome, stale, race_turns>>

start_new_game_First == <<Game>> \o games

(* series_state.py:80-82 *)
start_new_game == Append(games, Game)

(* draft.py:940-964: after the ready check, _start_next_game appends the    *)
(* game and enters _draft_loop                                              *)
StartNextGame(v, max_games) ==
    /\ tasks[v].pc = "ready"
    /\ tasks[v].done
    /\ Len(games) < max_games
    /\ games' = start_new_game
    /\ tasks' = [tasks EXCEPT ![v] = LoopStart(@, captain_a, captain_b)]
    /\ UNCHANGED <<annex, CHAMPS_CACHE, seed, series_by_thread, bo, team_a, team_b,
                   captain_a, captain_b, captain_a_name, captain_b_name,
                   score_a, score_b, fearless_pool, crashed, outcome, stale,
                   race_turns>>

(* draft.py:229-232, 241-244: inter.message.delete() succeeds, or raises    *)
(* and is only logged; either way the lock of the view is released          *)
DeleteMessage(v, ok) ==
    /\ tasks[v].pc = "delete"
    /\ ok \/ stale < MaxStale
    /\ tasks' = [tasks EXCEPT ![v] = IdleTask(~ok)]
    /\ stale' = IF ok THEN stale ELSE stale + 1
    /\ UNCHANGED <<annex, CHAMPS_CACHE, seed, series_by_thread, series, crashed,
                   outcome, race_turns>>

-----------------------------------------------------------------------------
Next ==
    \/ \E t \in TaskIds, author \in Users :
            \E cand \in Typed(tasks[t].taken) : Message(t, author, cand)
    \/ \E t \in TaskIds : Timeout(t)
    \/ \E v \in Views, user \in Users, side \in {"A", "B"} : Click(v, user, side)
    \/ \E v \in Views : Report(v)
    \/ \E v \in Views : AfterMeta(v)
    \/ \E v \in Views, user \in Users, go \in BOOLEAN : ContinueClick(v, user, go)
    \/ \E v \in Views : ContinueTimeout(v)
    \/ \E v \in Views : ContinueResolved(v)
    \/ \E v \in Views, user \in Users, swap \in BOOLEAN : SideClick(v, user, swap)
    \/ \E v \in Views : SideTimeout(v)
    \/ \E v \in Views : SideResolved(v)
    \/ \E v \in Views, user \in Users, button \in {"A", "B"} :
            ReadyClick(v, user, button)
    \/ \E v \in Views : ReadyTimeout(v)
    \/ \E v \in Views : StartNextGame(v, MaxGames)
    \/ \E v \in Views, ok \in BOOLEAN : DeleteMessage(v, ok)

Spec == Init /\ [][Next]_vars

-----------------------------------------------------------------------------
(* The lobby (oogway/cogs/custom_5v5.py, oogway/views/ready.py) up to the   *)
(* start_draft event and the creation of the series.  The lobby of 10       *)
(* players split in teams of 5 is explored with teams of TeamSize.  Each    *)
(* handler is one step: the clicks of one lobby are taken one at a time.    *)
TeamSize == 2
Creator == 1                   \* the organizer who ran /5v5
Humans == 1..4                 \* linked members who can click
BOT_ID_START == 100            \* custom_5v5.py:47

(* custom_5v5.py:90-92 *)
generate_bot_id(index) == BOT_ID_START + index

(* What the lobby flow never writes *)
lobbyFrame == <<CHAMPS_CACHE, seed, crashed, outcome, stale, race_turns,
                beyond>>

(* No series exists yet *)
NoSeries ==
    /\ CHAMPS_CACHE = 1..LargeCatalog
    /\ seed = 0
    /\ series_by_thread = FALSE
    /\ bo = 0
    /\ team_a = <<>> /\ team_b = <<>>
    /\ captain_a = 0 /\ captain_b = 0
    /\ captain_a_name = "None" /\ captain_b_name = "None"
    /\ score_a = 0 /\ score_b = 0
    /\ fearless_pool = {}
    /\ games = <<>>
    /\ tasks = (0 :> IdleTask(FALSE))
    /\ crashed = FALSE
    /\ outcome = "None"
    /\ stale = 0
    /\ race_turns = 0

(* five_v_five (custom_5v5.py:972-1030) has posted the JoinView *)
LobbyInit ==
    /\ phase = "join"
    /\ \E b \in {1, 3}, f \in BOOLEAN, cp \in BOOLEAN :
          join = [kind |-> "join", players |-> {}, bo |-> b, fearless |-> f,
                  captain_pick |-> cp]
    /\ confirm = NoView
    /\ ready_view = NoView
    /\ TURN_TIME = 0
    /\ NoSeries
    /\ Elsewhere

(* random.shuffle(ids): every order of the ids *)
Shuffles(ids) ==
    {f \in [1..Cardinality(ids) -> ids] :
        \A i, j \in 1..Cardinality(ids) : f[i] = f[j] => i = j}

(* custom_5v5.py:307, 453, 463: [i for i in ids if i < BOT_ID_START] *)
HumansOf(ids) == {i \in ids : i < BOT_ID_START}

(* custom_5v5.py:307-311, 548-552: the two captains of Captains Pick *)
SampleCaptains(ids) ==
    LET pool == IF Cardinality(HumansOf(ids)) >= 2 THEN HumansOf(ids) ELSE ids
    IN  {pair \in pool \X pool : pair[1] # pair[2]}

CaptainPickView_AllRemaining(pair, ids) ==
    [kind |-> "captains", cap_a |-> pair[1], cap_b |-> pair[2],
     team_a |-> <<pair[1]>>, team_b |-> <<pair[2]>>,
     remaining |-> ids, turn |-> "A"]

(* custom_5v5.py:314-320, 503-507, 554-556 *)
CaptainPickView(pair, ids) ==
    [kind |-> "captains", cap_a |-> pair[1], cap_b |-> pair[2],
     team_a |-> <<pair[1]>>, team_b |-> <<pair[2]>>,
     remaining |-> ids \ {pair[1], pair[2]}, turn |-> "A"]

(* custom_5v5.py:346, 418: ids[:5], ids[5:] *)
TeamConfirmView(ids) ==
    [kind |-> "random",
     team_a |-> SubSeq(ids, 1, TeamSize),
     team_b |-> SubSeq(ids, TeamSize + 1, Len(ids))]

(* custom_5v5.py:301-363: the views show_confirm can post *)
show_confirm(j) ==
    IF j.captain_pick
    THEN {CaptainPickView(pair, j.players) : pair \in SampleCaptains(j.players)}
    ELSE {TeamConfirmView(ids) : ids \in Shuffles(j.players)}

(* custom_5v5.py:721-823 and ready.py:11-16: launch_ready_and_dispatch      *)
(* posts the ReadyView; its callback holds the arguments of start_draft     *)
ReadyView(ta, tb, cap_a, cap_b) ==
    [kind |-> "ready", cap_a |-> cap_a, cap_b |-> cap_b,
     ready_a |-> cap_a < 0, ready_b |-> cap_b < 0,
     team_a |-> ta, team_b |-> tb]

(* custom_5v5.py:175-195: JoinView.join *)
LobbyJoin(uid) ==
    /\ phase = "join"
    /\ uid \in Humans
    /\ uid \notin join.players
    /\ Cardinality(join.players) < 2 * TeamSize
    /\ LET j == [join EXCEPT !.players = @ \cup {uid}]
       IN  /\ join' = j
           /\ IF Cardinality(j.players) = 2 * TeamSize
              THEN /\ confirm' \in show_confirm(j)
                   /\ phase' = "confirm"
              ELSE UNCHANGED <<phase, confirm>>
    /\ UNCHANGED <<ready_view, series_by_thread, series, tasks, TURN_TIME,
                   lobbyFrame>>

(* custom_5v5.py:202-211: JoinView.quit *)
LobbyQuit(uid) ==
    /\ phase = "join"
    /\ uid \in join.players
    /\ join' = [join EXCEPT !.players = @ \ {uid}]
    /\ UNCHANGED <<phase, confirm, ready_view, series_by_thread, series, tasks,
                   TURN_TIME,
                   lobbyFrame>>

(* custom_5v5.py:235-252: JoinView.complete_dev fills the lobby with bots *)
CompleteDev(user) ==
    /\ phase = "join"
    /\ user = Creator
    /\ LET missing == 2 * TeamSize - Cardinality(join.players)
           bots == {generate_bot_id(i) : i \in 0..(missing - 1)}
           j == [join EXCEPT !.players = @ \cup bots]
       IN  /\ join' = j
           /\ confirm' \in show_confirm(j)
    /\ phase' = "confirm"
    /\ UNCHANGED <<ready_view, series_by_thread, series, tasks, TURN_TIME,
                   lobbyFrame>>

(* custom_5v5.py:412-434: TeamConfirmView.reroll *)
Reroll(user) ==
    /\ phase = "confirm"
    /\ confirm.kind = "random"
    /\ user = Creator
    /\ \E ids \in Shuffles(Range(confirm.team_a) \cup Range(confirm.team_b)) :
          confirm' = TeamConfirmView(ids)
    /\ UNCHANGED <<phase, join, ready_view, series_by_thread, series, tasks,
                   TURN_TIME,
                   lobbyFrame>>

(* custom_5v5.py:441-486: TeamConfirmView.accept chooses the captains and   *)
(* calls launch_ready_and_dispatch                                          *)
Accept(user) ==
    /\ phase = "confirm"
    /\ confirm.kind = "random"
    /\ user = Creator
    /\ LET ta == confirm.team_a
           tb == confirm.team_b
           has_bot == \E uid \in Range(ta) \cup Range(tb) : uid >= BOT_ID_START
           Pool(team) == IF HumansOf(Range(team)) # {} THEN HumansOf(Range(team))
                         ELSE Range(team)
       IN  IF ~has_bot
           THEN \E cap_a \in Pool(ta), cap_b \in Pool(tb) :
                   ready_view' = ReadyView(ta, tb, cap_a, cap_b)
           ELSE IF user \in Range(ta)
           THEN \E cap_b \in Pool(tb) :
                   ready_view' = ReadyView(ta, tb, user, cap_b)
           ELSE \E cap_b \in Pool(ta) :
                   ready_view' = ReadyView(tb, ta, user, cap_b)
    /\ phase' = "ready"
    /\ confirm' = NoView
    /\ UNCHANGED <<join, series_by_thread, series, tasks, TURN_TIME,
                   lobbyFrame>>

(* custom_5v5.py:541-580: the reroll button of CaptainPickView *)
RerollCaptains(user) ==
    /\ phase = "confirm"
    /\ confirm.kind = "captains"
    /\ user = Creator
    /\ \E pair \in SampleCaptains(join.players) :
          confirm' = CaptainPickView(pair, join.players)
    /\ UNCHANGED <<phase, join, ready_view, series_by_thread, series, tasks,
                   TURN_TIME,
                   lobbyFrame>>

(* custom_5v5.py:522-539: the values of the select *)
Options == IF confirm.kind = "captains" THEN confirm.remaining ELSE {}

(* custom_5v5.py:636-715: CaptainPickView._on_pick *)
OnPick(user, picked) ==
    /\ phase = "confirm"
    /\ confirm.kind = "captains"
    /\ user = IF confirm.turn = "A" THEN confirm.cap_a ELSE confirm.cap_b
    /\ picked \in confirm.remaining
    /\ IF confirm.turn = "A" THEN Len(confirm.team_a) < TeamSize
                             ELSE Len(confirm.team_b) < TeamSize
    /\ LET c == IF confirm.turn = "A"
                THEN [confirm EXCEPT !.team_a = Append(@, picked), !.turn = "B",
                                     !.remaining = @ \ {picked}]
                ELSE [confirm EXCEPT !.team_b = Append(@, picked), !.turn = "A",
                                     !.remaining = @ \ {picked}]
       IN  IF Len(c.team_a) = TeamSize /\ Len(c.team_b) = TeamSize
           THEN /\ ready_view' = ReadyView(c.team_a, c.team_b, c.cap_a, c.cap_b)
                /\ phase' = "ready"
                /\ confirm' = NoView
           ELSE /\ confirm' = c
                /\ UNCHANGED <<phase, ready_view>>
    /\ UNCHANGED <<join, series_by_thread, series, tasks, TURN_TIME,
                   lobbyFrame>>

AllReady_Either(r) == r.ready_a \/ r.ready_b

(* ready.py:42 *)
AllReady(r) == r.ready_a /\ r.ready_b

(* ready.py:19-49: a captain's button; when both are ready on_ready         *)
(* dispatches start_draft                                                   *)
ReadyBtn(user, button) ==
    /\ phase = "ready"
    /\ user = IF button = "A" THEN ready_view.cap_a ELSE ready_view.cap_b
    /\ ~(IF button = "A" THEN ready_view.ready_a ELSE ready_view.ready_b)
    /\ LET r == IF button = "A" THEN [ready_view EXCEPT !.ready_a = TRUE]
                ELSE [ready_view EXCEPT !.ready_b = TRUE]
       IN  /\ ready_view' = r
           /\ phase' = IF AllReady(r) THEN "dispatched" ELSE phase
    /\ UNCHANGED <<join, confirm, series_by_thread, series, tasks, TURN_TIME,
                   lobbyFrame>>

(* draft.py:457: the participants counted as real are the positive ids *)
RealCount(ta, tb) ==
    Cardinality({i \in 1..Len(ta) : ta[i] > 0})
    + Cardinality({i \in 1..Len(tb) : tb[i] > 0})

(* draft.py:457: TURN_TIME, computed on entering _draft_loop *)
TurnTime(ta, tb) == IF RealCount(ta, tb) = 1 THEN 2 ELSE 60

(* draft.py:430-452 and series_state.py:53-73: on_start_draft creates the   *)
(* series from the arguments of the event and enters _draft_loop            *)
OnStartDraft ==
    /\ phase = "dispatched"
    /\ bo' = join.bo
    /\ team_a' = ready_view.team_a /\ team_b' = ready_view.team_b
    /\ captain_a' = ready_view.cap_a /\ captain_b' = ready_view.cap_b
    /\ captain_a_name' = "name1" /\ captain_b_name' = "name2"
    /\ score_a' = 0 /\ score_b' = 0
    /\ fearless_pool' = {}
    /\ games' = <<Game>>
    /\ series_by_thread' = TRUE
    /\ tasks' = (0 :> LoopStart(IdleTask(FALSE), ready_view.cap_a, ready_view.cap_b))
    /\ phase' = "draft"
    /\ TURN_TIME' = TurnTime(ready_view.team_a, ready_view.team_b)
    /\ join' = NoView /\ confirm' = NoView /\ ready_view' = NoView
    /\ UNCHANGED lobbyFrame

(* series_state.py:93-98: swap_sides on the created series, as              *)
(* _handle_side_choice_and_ready calls it (draft.py:934)                    *)
SwapSides ==
    /\ phase = "draft"
    /\ LET s == swap_sides(SeriesState)
       IN  /\ team_a' = s.team_a /\ team_b' = s.team_b
           /\ captain_a' = s.captain_a /\ captain_b' = s.captain_b
           /\ captain_a_name' = s.captain_a_name
           /\ captain_b_name' = s.captain_b_name
           /\ score_a' = s.score_a /\ score_b' = s.score_b
    /\ UNCHANGED <<bo, fearless_pool, games, series_by_thread, tasks, lobbyVars,
                   TURN_TIME,
                   lobbyFrame>>

LobbyNext ==
    \/ \E uid \in Humans : LobbyJoin(uid)
    \/ \E uid \in Humans : LobbyQuit(uid)
    \/ \E user \in Humans : CompleteDev(user)
    \/ \E user \in Humans : Reroll(user)
    \/ \E user \in Humans : Accept(user)
    \/ \E user \in Humans : RerollCaptains(user)
    \/ \E user \in Humans, picked \in Options : OnPick(user, picked)
    \/ \E user \in Humans, button \in {"A", "B"} : ReadyBtn(user, button)
    \/ OnStartDraft
    \/ SwapSides

LobbySpec == LobbyInit /\ [][LobbyNext]_vars

-----------------------------------------------------------------------------
(* The JoinView with its callbacks cut at their awaits.  One more linked    *)
(* member than the lobby has places can click.                              *)

Joiners == 1..(2 * TeamSize + 1)

joinFrame ==
    <<ready_view, series_by_thread, series, tasks, TURN_TIME, CHAMPS_CACHE,
      seed, crashed, outcome, stale, race_turns, catalogVars, riotVars, match,
      metaVars>>

(* custom_5v5.py:175-186: JoinView.join up to `await inter.response.defer()` *)
JoinButton(uid) ==
    /\ phase = "join"
    /\ uid \notin join.players
    /\ Cardinality(join.players) < 2 * TeamSize
    /\ join' = [join EXCEPT !.players = @ \cup {uid}]
    /\ calls' = [calls EXCEPT !.joining = @ \cup {uid}]
    /\ UNCHANGED <<phase, confirm, joinFrame>>

(* custom_5v5.py:186-195: the callback resumes after defer() and refresh(); *)
(* with a full lobby it stops the view and enters show_confirm              *)
JoinResumed(uid) ==
    /\ uid \in calls.joining
    /\ IF Cardinality(join.players) = 2 * TeamSize
       THEN /\ calls' = [calls EXCEPT !.joining = @ \ {uid},
                                      !.posted = @ + 1]
            /\ confirm' \in show_confirm(join)
            /\ phase' = "confirm"
       ELSE /\ calls' = [calls EXCEPT !.joining = @ \ {uid}]
            /\ UNCHANGED <<phase, confirm>>
    /\ UNCHANGED <<join, joinFrame>>

JoinNext ==
    \/ \E uid \in Joiners : JoinButton(uid)
    \/ \E uid \in Joiners : JoinResumed(uid)
    \/ \E uid \in Joiners : LobbyQuit(uid)

JoinSpec == LobbyInit /\ [][JoinNext]_vars

-----------------------------------------------------------------------------
(* From the lobby into the series: the teams are accepted, the ReadyView is *)
(* posted for a lobby configured with Fearless ON or OFF, and the series    *)
(* that start_draft creates is played.                                      *)

(* custom_5v5.py:843: the Bo1 / Bo3 / Bo5 options of the SetupView *)
BestOf == {1, 3, 5}

FearlessInit ==
    /\ phase = "ready"
    /\ \E b \in BestOf, f \in BOOLEAN :
          join = [kind |-> "join", players |-> Humans, bo |-> b,
                  fearless |-> f, captain_pick |-> FALSE]
    /\ confirm = NoView
    /\ ready_view = ReadyView(TeamA0, TeamB0, 1, 2)
    /\ TURN_TIME = 0
    /\ CHAMPS_CACHE \in {1..SmallCatalog, 1..LargeCatalog}
    /\ seed \in 0..(RngMod - 1)
    /\ series_by_thread = FALSE
    /\ bo = 0
    /\ team_a = <<>> /\ team_b = <<>>
    /\ captain_a = 0 /\ captain_b = 0
    /\ captain_a_name = "None" /\ captain_b_name = "None"
    /\ score_a = 0 /\ score_b = 0
    /\ fearless_pool = {}
    /\ games = <<>>
    /\ tasks = (0 :> IdleTask(FALSE))
    /\ crashed = FALSE
    /\ outcome = "None"
    /\ stale = 0
    /\ race_turns = 0
    /\ Elsewhere

FearlessNext ==
    \/ \E user \in Humans, button \in {"A", "B"} : ReadyBtn(user, button)
    \/ OnStartDraft
    \/ Next

FearlessSpec == FearlessInit /\ [][FearlessNext]_vars

-----------------------------------------------------------------------------
(* The same program in a quieter environment: a Bo5 with a full catalog,    *)
(* captains who type champions and click the ResultView buttons, every      *)
(* other wait ended by its deadline.  One more game is explored than under  *)
(* Spec.                                                                    *)
RaceInit ==
    /\ Init
    /\ bo = 5
    /\ CHAMPS_CACHE = 1..LargeCatalog

RaceNext ==
    \/ \E t \in TaskIds, author \in Users :
            \E cand \in Typed(tasks[t].taken) : Message(t, author, cand)
    \/ \E t \in TaskIds : Timeout(t)
    \/ \E v \in Views, user \in Users, side \in {"A", "B"} : Click(v, user, side)
    \/ \E v \in Views : Report(v)
    \/ \E v \in Views : AfterMeta(v)
    \/ \E v \in Views : SideTimeout(v)
    \/ \E v \in Views : SideResolved(v)
    \/ \E v \in Views : ReadyTimeout(v)
    \/ \E v \in Views : StartNextGame(v, MaxRaceGames)
    \/ \E v \in Views, ok \in BOOLEAN : DeleteMessage(v, ok)

RaceSpec == RaceInit /\ [][RaceNext]_vars

-----------------------------------------------------------------------------
(* The statistics shared by the series of all threads.  The series of the   *)
(* model is a Bo3 whose waits end by their deadlines and whose captains     *)
(* click the ResultView buttons, also those of a message whose deletion     *)
(* failed; Redis answers or raises.  A series in another thread reports     *)
(* games of its own: the steps of its _report that touch the statistics     *)
(* are those of _meta_update_for_game.                                      *)
MaxMetaGames == 2      \* games appended to the series
MaxOtherGames == 2     \* games the other series reports

OtherSeries == -1      \* the key of the other series' call in meta_calls

(* The game the other series reports, won by side A *)
OtherGame == [picks_a |-> <<1>>, picks_b |-> <<2>>, bans_a |-> <<3>>,
              bans_b |-> <<4>>, winner |-> "A"]

metaFrame == <<lobbyVars, TURN_TIME, catalogVars, riotVars,
               commandVars, draftVars>>

(* draft.py:753-759: the other series records a winner and calls the update *)
OtherReport ==
    /\ other.pc = "idle"
    /\ other.reported < MaxOtherGames
    /\ other' = [pc |-> "load", reported |-> other.reported + 1]
    /\ meta_calls' = (OtherSeries :> MetaCall(other.reported + 1)) @@ meta_calls
    /\ UNCHANGED <<META, meta_warnings, metaFrame>>

(* draft.py:165-179: r_get answers and the counters are added, or it raises *)
OtherLoaded(ok) ==
    /\ other.pc = "load"
    /\ IF ok
       THEN /\ meta_calls' = [meta_calls EXCEPT
                    ![OtherSeries].loaded = TRUE,
                    ![OtherSeries].data =
                        MetaUpdated(META, OtherGame, OtherGame.winner)]
            /\ other' = [other EXCEPT !.pc = "save"]
            /\ UNCHANGED meta_warnings
       ELSE /\ meta_warnings' = meta_warnings + 1
            /\ other' = [other EXCEPT !.pc = "idle"]
            /\ meta_calls' = Without(meta_calls, OtherSeries)
    /\ UNCHANGED <<META, metaFrame>>

(* draft.py:158-160, 179: r_set stores the data, or raises *)
OtherSaved(ok) ==
    /\ other.pc = "save"
    /\ meta_calls' = Without(meta_calls, OtherSeries)
    /\ other' = [other EXCEPT !.pc = "idle"]
    /\ IF ok
       THEN META' = meta_calls[OtherSeries].data /\ UNCHANGED meta_warnings
       ELSE meta_warnings' = meta_warnings + 1 /\ UNCHANGED META
    /\ UNCHANGED metaFrame

MetaInit ==
    /\ Init
    /\ bo = 3
    /\ CHAMPS_CACHE = 1..LargeCatalog

MetaNext ==
    \/ \E t \in TaskIds : Timeout(t)
    \/ \E v \in Views, user \in Users, side \in {"A", "B"} : Click(v, user, side)
    \/ \E v \in Views : Report(v)
    \/ \E v \in Views : AfterMeta(v)
    \/ \E v \in Views : MetaLoaded(v)
    \/ \E v \in Views, ok \in BOOLEAN : MetaSaved(v, ok)
    \/ \E v \in Views : SideTimeout(v)
    \/ \E v \in Views : SideResolved(v)
    \/ \E v \in Views : ReadyTimeout(v)
    \/ \E v \in Views : StartNextGame(v, MaxMetaGames)
    \/ \E v \in Views, ok \in BOOLEAN : DeleteMessage(v, ok)
    \/ OtherReport
    \/ \E ok \in BOOLEAN : OtherLoaded(ok)
    \/ \E ok \in BOOLEAN : OtherSaved(ok)

MetaSpec == MetaInit /\ [][MetaNext]_vars

-----------------------------------------------------------------------------
(* The champion catalog (draft.py:33-118).  load_champs is called by        *)
(* _preload and by on_start_draft; each call is a process that is           *)
(* suspended at its awaits.  A champion id and an alias are sequences of    *)
(* characters.                                                              *)
MaxLoaders == 2        \* load_champs calls that can overlap
MaxClock == 3          \* last value of time.time()
MaxVersion == 2        \* versions Data Dragon publishes
DD_CACHE_TTL == 1      \* draft.py:35

NoId == <<>>           \* None

Upper == <<"A", "B", "C", "D", "E", "F", "G", "H", "I", "J", "K", "L", "M",
           "N", "O", "P", "Q", "R", "S", "T", "U", "V", "W", "X", "Y", "Z">>
Lowers == <<"a", "b", "c", "d", "e", "f", "g", "h", "i", "j", "k", "l", "m",
            "n", "o", "p", "q", "r", "s", "t", "u", "v", "w", "x", "y", "z">>

(* str.lower() *)
LowerChar(c) ==
    IF \E i \in 1..26 : Upper[i] = c
    THEN Lowers[CHOOSE i \in 1..26 : Upper[i] = c]
    ELSE c

Lower(s) == [i \in 1..Len(s) |-> LowerChar(s[i])]

IsSpace(c) == c = " "

(* str.replace(" ", "") *)
NoSpace(s) == SelectSeq(s, LAMBDA c : ~IsSpace(c))

(* s[:3] *)
Prefix3(s) == SubSeq(s, 1, IF Len(s) < 3 THEN Len(s) ELSE 3)

(* Champion ids of Data Dragon *)
Leblanc == <<"L", "e", "b", "l", "a", "n", "c">>
MissFortune == <<"M", "i", "s", "s", "F", "o", "r", "t", "u", "n", "e">>
TwistedFate == <<"T", "w", "i", "s", "t", "e", "d", "F", "a", "t", "e">>
JarvanIV == <<"J", "a", "r", "v", "a", "n", "I", "V">>
Warwick == <<"W", "a", "r", "w", "i", "c", "k">>
Gangplank == <<"G", "a", "n", "g", "p", "l", "a", "n", "k">>
MonkeyKing == <<"M", "o", "n", "k", "e", "y", "K", "i", "n", "g">>
Belveth == <<"B", "e", "l", "v", "e", "t", "h">>
KSante == <<"K", "S", "a", "n", "t", "e">>
Chogath == <<"C", "h", "o", "g", "a", "t", "h">>
Kayle == <<"K", "a", "y", "l", "e">>
Kayn == <<"K", "a", "y", "n">>

(* draft.py:81-87 *)
manual ==
    (<<"l", "b">> :> Leblanc) @@ (<<"m", "f">> :> MissFortune)
    @@ (<<"t", "f">> :> TwistedFate) @@ (<<"j", "4">> :> JarvanIV)
    @@ (<<"w", "w">> :> Warwick) @@ (<<"g", "p">> :> Gangplank)
    @@ (<<"w", "u">> :> MonkeyKing) @@ (<<"w", "k">> :> MonkeyKing)
    @@ (<<"w", "u", "k", "o", "n", "g">> :> MonkeyKing)
    @@ (<<"m", "k">> :> MonkeyKing)
    @@ (<<"m", "o", "n", "k", "e", "y">> :> MonkeyKing)
    @@ (<<"b", "e", "l", "v">> :> Belveth) @@ (<<"k", "s">> :> KSante)
    @@ (<<"c", "h", "o">> :> Chogath)

(* dict.update: the entries of new replace those of old *)
Update(old, new) == new @@ old

(* dict.update(manual) comes before the loop *)
WithManual_First(al) == Update(manual, al)

(* draft.py:103: ALIASES.update(manual) *)
WithManual(al) == Update(al, manual)

(* draft.py:92-101: one iteration of the loop over CHAMPS_CACHE *)
AddChamp(acc, cid) ==
    LET slug == Lower(cid)
        nospace == NoSpace(slug)
        al == Update(Update(acc.al, slug :> cid), nospace :> cid)
        abbr3 == Prefix3(nospace)
    IN  IF abbr3 \notin DOMAIN al /\ abbr3 \notin acc.taken
        THEN [al |-> Update(al, abbr3 :> cid), taken |-> acc.taken \cup {abbr3}]
        ELSE [al |-> al, taken |-> acc.taken]

RECURSIVE Generated(_, _)
Generated(cat, n) ==
    IF n = 0 THEN [al |-> <<>>, taken |-> {}]
    ELSE AddChamp(Generated(cat, n - 1), cat[n])

(* draft.py:89-103: the alias table rebuilt from the ids of a catalog *)
BuildAliases(cat) == WithManual(Generated(cat, Len(cat)).al)

(* draft.py:108-118: canonicalize.  Without an exact key the result is the  *)
(* nearest key of difflib, if one is near enough: any entry, or None.       *)
canonicalize(name) ==
    LET key == NoSpace(Lower(name))
    IN  IF key \in DOMAIN ALIASES THEN {ALIASES[key]}
        ELSE {ALIASES[k] : k \in DOMAIN ALIASES} \cup {NoId}

(* The champion.json of each version, in the order of its "data" object *)
Catalog(ver) ==
    IF ver = 1 THEN <<Kayle, MonkeyKing>> ELSE <<Kayle, Kayn, MonkeyKing>>

Loaders == 1..MaxLoaders

IdleLoader == [pc |-> "idle", caller |-> "None", now |-> 0, ver |-> 0,
               had_cache |-> FALSE]

(* The bot starts: nothing is cached (draft.py:33-39) *)
CatalogInit ==
    /\ CHAMPS_CACHE = <<>>
    /\ DD_VERSION_CACHE = 0 /\ DD_VERSION_CACHE_TIME = 0
    /\ CHAMPS_CACHE_TIME = 0
    /\ ALIASES = <<>>
    /\ loaders = [l \in Loaders |-> IdleLoader]
    /\ clock = DD_CACHE_TTL
    /\ server = 1
    /\ canon = NoCanon
    /\ seed = 0
    /\ series_by_thread = FALSE
    /\ bo = 0
    /\ team_a = <<>> /\ team_b = <<>>
    /\ captain_a = 0 /\ captain_b = 0
    /\ captain_a_name = "None" /\ captain_b_name = "None"
    /\ score_a = 0 /\ score_b = 0
    /\ fearless_pool = {}
    /\ games = <<>>
    /\ tasks = (0 :> IdleTask(FALSE))
    /\ crashed = FALSE
    /\ outcome = "None"
    /\ stale = 0
    /\ race_turns = 0
    /\ LobbyOver
    /\ TURN_TIME = 0
    /\ NoRequest
    /\ NoThrottle
    /\ NoCommand
    /\ MetaIdle

(* What load_champs never writes *)
catalogFrame == <<seed, series_by_thread, series, tasks, crashed, outcome,
                  stale, race_turns, lobbyVars, TURN_TIME, riotVars,
                   commandVars, metaVars,
                  canon>>

(* draft.py:67, 51: the cache is filled and younger than the TTL *)
Fresh(cache_filled, now, cache_time) ==
    cache_filled /\ now - cache_time < DD_CACHE_TTL

(* A load has completed: a catalog and its alias table are cached *)
Cached == CHAMPS_CACHE # <<>> /\ DOMAIN ALIASES # {}

(* draft.py:62-69 and 46-53: a call of load_champs up to its first await.   *)
(* _preload calls it once, when the cog is created (draft.py:398, 404).     *)
Call(l, caller) ==
    /\ loaders[l].pc = "idle"
    /\ caller = "preload" => \A k \in Loaders : loaders[k].caller = "None"
    /\ LET me == [IdleLoader EXCEPT !.caller = caller, !.now = clock,
                                    !.had_cache = Cached]
       IN  loaders' = [loaders EXCEPT ![l] =
               IF Fresh(CHAMPS_CACHE # <<>>, clock, CHAMPS_CACHE_TIME)
               THEN [me EXCEPT !.pc = "returned"]
               ELSE IF Fresh(DD_VERSION_CACHE # 0, clock, DD_VERSION_CACHE_TIME)
               THEN [me EXCEPT !.pc = "fetch", !.ver = DD_VERSION_CACHE]
               ELSE [me EXCEPT !.pc = "version"]]
    /\ UNCHANGED <<CHAMPS_CACHE, DD_VERSION_CACHE, DD_VERSION_CACHE_TIME,
                   CHAMPS_CACHE_TIME, ALIASES, clock, server, catalogFrame>>

(* draft.py:55-60: versions.json is answered, or the request raises *)
VersionFetched(l, ok) ==
    /\ loaders[l].pc = "version"
    /\ IF ok
       THEN /\ DD_VERSION_CACHE' = server
            /\ DD_VERSION_CACHE_TIME' = loaders[l].now
            /\ loaders' = [loaders EXCEPT ![l].pc = "fetch", ![l].ver = server]
       ELSE /\ loaders' = [loaders EXCEPT ![l].pc = "raised"]
            /\ UNCHANGED <<DD_VERSION_CACHE, DD_VERSION_CACHE_TIME>>
    /\ UNCHANGED <<CHAMPS_CACHE, CHAMPS_CACHE_TIME, ALIASES, clock, server,
                   catalogFrame>>

(* draft.py:73-75: champion.json is answered and CHAMPS_CACHE assigned      *)
(* inside the two `async with`, or the request raises                       *)
ChampsFetched(l, ok) ==
    /\ loaders[l].pc = "fetch"
    /\ IF ok
       THEN /\ CHAMPS_CACHE' = Catalog(loaders[l].ver)
            /\ loaders' = [loaders EXCEPT ![l].pc = "exit"]
       ELSE /\ loaders' = [loaders EXCEPT ![l].pc = "raised"]
            /\ UNCHANGED CHAMPS_CACHE
    /\ UNCHANGED <<DD_VERSION_CACHE, DD_VERSION_CACHE_TIME, CHAMPS_CACHE_TIME,
                   ALIASES, clock, server, catalogFrame>>

(* draft.py:77-104: after the __aexit__ of the response and of the          *)
(* session, the time is stored and the alias table rebuilt                  *)
Rebuild(l) ==
    /\ loaders[l].pc = "exit"
    /\ CHAMPS_CACHE_TIME' = loaders[l].now
    /\ ALIASES' = BuildAliases(CHAMPS_CACHE)
    /\ loaders' = [loaders EXCEPT ![l].pc = "returned"]
    /\ UNCHANGED <<CHAMPS_CACHE, DD_VERSION_CACHE, DD_VERSION_CACHE_TIME,
                   clock, server, catalogFrame>>

(* The caller is over: _preload has logged (draft.py:405-406), or the       *)
(* draft that on_start_draft started has ended                              *)
CallerDone(l) ==
    /\ loaders[l].pc \in {"returned", "raised"}
    /\ loaders' = [loaders EXCEPT ![l].pc = "idle"]
    /\ UNCHANGED <<CHAMPS_CACHE, DD_VERSION_CACHE, DD_VERSION_CACHE_TIME,
                   CHAMPS_CACHE_TIME, ALIASES, clock, server, catalogFrame>>

(* time.time() advances *)
Tick ==
    /\ clock < MaxClock
    /\ clock' = clock + 1
    /\ UNCHANGED <<CHAMPS_CACHE, DD_VERSION_CACHE, DD_VERSION_CACHE_TIME,
                   CHAMPS_CACHE_TIME, ALIASES, loaders, server, catalogFrame>>

(* Data Dragon publishes a version *)
Release ==
    /\ server < MaxVersion
    /\ server' = server + 1
    /\ UNCHANGED <<CHAMPS_CACHE, DD_VERSION_CACHE, DD_VERSION_CACHE_TIME,
                   CHAMPS_CACHE_TIME, ALIASES, loaders, clock, catalogFrame>>

CatalogNext ==
    \/ \E l \in Loaders, caller \in {"preload", "start_draft"} : Call(l, caller)
    \/ \E l \in Loaders, ok \in BOOLEAN : VersionFetched(l, ok)
    \/ \E l \in Loaders, ok \in BOOLEAN : ChampsFetched(l, ok)
    \/ \E l \in Loaders : Rebuild(l)
    \/ \E l \in Loaders : CallerDone(l)
    \/ Tick
    \/ Release

CatalogSpec == CatalogInit /\ [][CatalogNext]_vars

-----------------------------------------------------------------------------
(* canonicalize on the alias table of one load: the catalog is any list of  *)
(* at most MaxCatalogLen ids drawn from IdPool, the text any of Texts.      *)
MaxCatalogLen == 3

(* An id with the 3 first letters of Chogath, as a later champion could     *)
(* have; the other ids are those of Data Dragon                             *)
Chomp == <<"C", "h", "o", "m", "p">>

IdPool == {Kayle, Kayn, MonkeyKing, Chogath, Chomp}

Catalogs ==
    {cat \in UNION {[1..n -> IdPool] : n \in 1..MaxCatalogLen} :
        \A i, j \in 1..Len(cat) : i # j => cat[i] # cat[j]}

(* What a captain types (draft.py:529-531) *)
Texts ==
    {<<"W", "u", "k", "o", "n", "g">>, <<"w", "u", " ", "k", "o", "n", "g">>,
     <<"m", "k">>, <<"M", "o", "n", "k", "e", "y", " ", "K", "i", "n", "g">>,
     <<"c", "h", "o">>, <<"C", "H", "O", "G", "A", "T", "H">>,
     <<"c", "h", "o", "m", "p">>, <<"k", "a", "y">>, <<"K", "a", "y", "n">>,
     <<"k", "a", "y", "l", "e">>, <<"z", "z", "z">>}

AliasInit ==
    /\ \E cat \in Catalogs :
          /\ CHAMPS_CACHE = cat
          /\ ALIASES = BuildAliases(cat)
    /\ DD_VERSION_CACHE = 1 /\ DD_VERSION_CACHE_TIME = 0
    /\ CHAMPS_CACHE_TIME = 0
    /\ loaders = <<>>
    /\ clock = 0
    /\ server = 1
    /\ canon = NoCanon
    /\ seed = 0
    /\ series_by_thread = FALSE
    /\ bo = 0
    /\ team_a = <<>> /\ team_b = <<>>
    /\ captain_a = 0 /\ captain_b = 0
    /\ captain_a_name = "None" /\ captain_b_name = "None"
    /\ score_a = 0 /\ score_b = 0
    /\ fearless_pool = {}
    /\ games = <<>>
    /\ tasks = (0 :> IdleTask(FALSE))
    /\ crashed = FALSE
    /\ outcome = "None"
    /\ stale = 0
    /\ race_turns = 0
    /\ LobbyOver
    /\ TURN_TIME = 0
    /\ NoRequest
    /\ NoThrottle
    /\ NoCommand
    /\ MetaIdle

(* draft.py:531: cand = canonicalize(name) *)
Canonicalize(name) ==
    /\ \E id \in canonicalize(name) :
          canon' = [called |-> TRUE, name |-> name, id |-> id]
    /\ UNCHANGED <<draftVars, lobbyVars, TURN_TIME, riotVars,
                   commandVars, metaVars,
                   DD_VERSION_CACHE, DD_VERSION_CACHE_TIME, CHAMPS_CACHE_TIME,
                   ALIASES, loaders, clock, server>>

AliasNext == \E name \in Texts : Canonicalize(name)

AliasSpec == AliasInit /\ [][AliasNext]_vars

-----------------------------------------------------------------------------
(* RiotClient._request (oogway/riot/client.py:85-138): one call, after      *)
(* _throttle and _get_session have returned.  Each GET is answered with a   *)
(* status, or raises aiohttp.ClientError before any response.               *)
MaxRetries == 3        \* largest max_retries of a call (the default is 3)
MaxRetryAfter == 1     \* largest Retry-After header of a 429 response

NoStatus == 0          \* the GET raised aiohttp.ClientError
Statuses == {200, 403, 404, 429, 500, NoStatus}

(* Every 429 is retried *)
AttemptsLeft_Always(attempt, max_retries) == TRUE

(* client.py:109, 124, 131: attempt < max_retries - 1 *)
AttemptsLeft(attempt, max_retries) == attempt < max_retries - 1

(* client.py:108: int(resp.headers.get("Retry-After", "1")) + 1 *)
RetryAfter(header) == header + 1

(* 2 ** attempt *)
RECURSIVE Pow2(_)
Pow2(n) == IF n = 0 THEN 1 ELSE 2 * Pow2(n - 1)

RequestInit ==
    /\ \E m \in 1..MaxRetries :
          request = [pc |-> "get", max_retries |-> m, attempt |-> 0,
                     codes |-> <<>>, wait |-> 0, result |-> "None"]
    /\ NoSeries
    /\ LobbyOver
    /\ TURN_TIME = 0
    /\ CatalogLoaded
    /\ MetaIdle
    /\ NoThrottle
    /\ NoCommand

requestFrame == <<draftVars, lobbyVars, TURN_TIME, catalogVars, metaVars,
                  riot, commandVars>>

(* client.py:138, 114, 126, 135, 117, 120: how the call ends *)
Ended(r, result) == [r EXCEPT !.pc = "done", !.result = result]

(* client.py:112, 127, 133: await asyncio.sleep(...) before `continue` *)
Sleeping(r, wait) == [r EXCEPT !.pc = "sleep", !.wait = wait]

(* client.py:107-136: what one pass of the loop does with the answer of its *)
(* GET; header is the Retry-After of a 429                                   *)
Answered(call, status, header) ==
    LET r == [call EXCEPT !.codes = Append(@, status)]
        left == AttemptsLeft(call.attempt, call.max_retries)
    IN  IF status = 429
        THEN IF left THEN Sleeping(r, RetryAfter(header))
             ELSE Ended(r, "RateLimitError")
        ELSE IF status = 404 THEN Ended(r, "null")
        ELSE IF status = 200 THEN Ended(r, "json")
        ELSE IF status = NoStatus
        THEN IF left THEN Sleeping(r, Pow2(call.attempt))
             ELSE Ended(r, "ClientError")
        ELSE IF status >= 500 /\ left
        THEN Sleeping(r, Pow2(call.attempt))
        ELSE Ended(r, "RiotAPIError")

(* client.py:104, 113, 138: the sleep is over and `continue` takes the next *)
(* value of range(max_retries); when there is none the loop is left         *)
Woken(call) ==
    IF call.attempt + 1 < call.max_retries
    THEN [call EXCEPT !.pc = "get", !.attempt = @ + 1, !.wait = 0]
    ELSE Ended([call EXCEPT !.wait = 0], "RiotAPIError")

(* client.py:104-136: one pass of the loop, the GET answered with status *)
Respond(status, header) ==
    /\ request.pc = "get"
    /\ request' = Answered(request, status, header)
    /\ UNCHANGED requestFrame

(* client.py:111, 127, 134: the end of asyncio.sleep *)
Wake ==
    /\ request.pc = "sleep"
    /\ request' = Woken(request)
    /\ UNCHANGED requestFrame

RequestNext ==
    \/ \E status \in Statuses, header \in 0..MaxRetryAfter :
            Respond(status, header)
    \/ Wake

RequestSpec == RequestInit /\ [][RequestNext]_vars

-----------------------------------------------------------------------------
(* The Riot API client under concurrent callers (riot/client.py)            *)
(* Time is counted in whole seconds; the quota of 100 requests per 120 s is *)
(* scaled to QuotaMax requests per QuotaWindow seconds.                     *)

MaxCallers == 3
MaxNow == 3
MaxAttempts == 2

(* client.py:41-42 *)
QuotaWindow == 2
QuotaMax == 2

Callers == 1..MaxCallers

(* A subset of Statuses: success, rate limited, network error *)
ThrottleStatuses == {200, 429, NoStatus}

(* client.py:85: a call of _request that has not reached _throttle yet *)
NewCall(m) ==
    [pc |-> "throttle", max_retries |-> m, attempt |-> 0, codes |-> <<>>,
     wait |-> 0, result |-> "None"]

ThrottleInit ==
    /\ \E m \in 1..MaxAttempts :
          riot = [req_times |-> <<>>, lock |-> 0, now |-> 0,
                  callers |-> [c \in Callers |-> NewCall(m)],
                  gets |-> <<>>]
    /\ NoSeries
    /\ LobbyOver
    /\ TURN_TIME = 0
    /\ CatalogLoaded
    /\ NoRequest
    /\ NoCommand
    /\ MetaIdle

throttleFrame ==
    <<draftVars, lobbyVars, TURN_TIME, catalogVars, metaVars, request,
      commandVars>>

(* client.py:73-74: popleft while the oldest time is <= now - window *)
RECURSIVE Purge(_, _)
Purge(times, now) ==
    IF times # <<>> /\ times[1] <= now - QuotaWindow
    THEN Purge(Tail(times), now)
    ELSE times

(* client.py:106: session.get is entered *)
SessionGet(c) ==
    [riot EXCEPT !.gets = Append(@, riot.now), !.callers[c].pc = "get"]

(* client.py:69-83, 101-106: the lock is taken, old times are purged; with  *)
(* the quota used up the caller sleeps holding the lock, otherwise the time *)
(* is recorded, the lock released and the first GET sent                    *)
Throttle(c) ==
    /\ riot.callers[c].pc = "throttle"
    /\ riot.lock = 0
    /\ LET times == Purge(riot.req_times, riot.now)
       IN  riot' =
             IF Len(times) >= QuotaMax
             THEN [riot EXCEPT
                     !.req_times = times,
                     !.lock = c,
                     !.callers[c].pc = "throttled",
                     !.callers[c].wait = QuotaWindow - (riot.now - times[1])]
             ELSE [SessionGet(c) EXCEPT !.req_times = Append(times, riot.now)]
    /\ UNCHANGED throttleFrame

(* client.py:80-83, 101-106: the sleep of _throttle is over *)
Throttled(c) ==
    /\ riot.callers[c].pc = "throttled"
    /\ riot.callers[c].wait = 0
    /\ riot' = [SessionGet(c) EXCEPT !.req_times = Append(@, riot.now),
                              !.lock = 0]
    /\ UNCHANGED throttleFrame

(* client.py:107-136: the GET of caller c is answered *)
Response(c, status, header) ==
    /\ riot.callers[c].pc = "get"
    /\ riot' = [riot EXCEPT
                  !.callers[c] = Answered(@, status, header)]
    /\ UNCHANGED throttleFrame

(* client.py:104-106, 111, 127, 134: the sleep before a retry is over; the  *)
(* next pass of the loop sends its GET, _throttle is not called again       *)
Retry(c) ==
    /\ riot.callers[c].pc = "sleep"
    /\ riot.callers[c].wait = 0
    /\ LET call == Woken(riot.callers[c])
       IN  riot' = IF call.pc = "get"
                   THEN [SessionGet(c) EXCEPT !.callers[c] = call]
                   ELSE [riot EXCEPT !.callers[c] = call]
    /\ UNCHANGED throttleFrame

Asleep(call) == call.pc \in {"sleep", "throttled"}

(* One second passes; a sleeper is woken when its time has come *)
Second ==
    /\ riot.now < MaxNow
    /\ \A c \in Callers : Asleep(riot.callers[c]) => riot.callers[c].wait > 0
    /\ riot' = [riot EXCEPT
                  !.now = @ + 1,
                  !.callers = [c \in Callers |->
                                 IF Asleep(@[c])
                                 THEN [@[c] EXCEPT !.wait = @ - 1]
                                 ELSE @[c]]]
    /\ UNCHANGED throttleFrame

ThrottleNext ==
    \/ \E c \in Callers : Throttle(c)
    \/ \E c \in Callers : Throttled(c)
    \/ \E c \in Callers, status \in ThrottleStatuses,
          header \in 0..MaxRetryAfter : Response(c, status, header)
    \/ \E c \in Callers : Retry(c)
    \/ Second

ThrottleSpec == ThrottleInit /\ [][ThrottleNext]_vars

-----------------------------------------------------------------------------
(* The /5v5 command (custom_5v5.py:972-1031) and its SetupView              *)

MaxCommands == 2

Commands == 1..MaxCommands

(* custom_5v5.py:830-837: SetupView.__init__; stopped is the state of the   *)
(* view after its timeout                                                   *)
SetupView ==
    [bestof |-> 1, fearless |-> FALSE, captain_pick |-> FALSE,
     canceled |-> FALSE, done |-> FALSE, stopped |-> FALSE]

(* pc of an invocation: "none" not invoked, "lock" waiting for _match_lock, *)
(* "refused" answering that a custom is active, "setup" awaiting            *)
(* setup.done, "returned"                                                   *)
SetupInit ==
    /\ calls = [joining |-> {}, posted |-> 0]
    /\ match = [lock |-> 0, current_match |-> FALSE,
                commands |-> [i \in Commands |->
                                [pc |-> "none", setup |-> SetupView]]]
    /\ NoSeries
    /\ LobbyOver
    /\ TURN_TIME = 0
    /\ CatalogLoaded
    /\ NoRequest
    /\ NoThrottle
    /\ MetaIdle

matchFrame ==
    <<draftVars, lobbyVars, TURN_TIME, catalogVars, riotVars, calls, metaVars>>

(* custom_5v5.py:973: an organizer runs /5v5 *)
Invoke(i) ==
    /\ match.commands[i].pc = "none"
    /\ match' = [match EXCEPT !.commands[i].pc = "lock"]
    /\ UNCHANGED matchFrame

(* custom_5v5.py:974-983: the lock is taken; with a custom active the call  *)
(* answers and returns, otherwise it posts the SetupView and waits          *)
Enter(i) ==
    /\ match.commands[i].pc = "lock"
    /\ match.lock = 0
    /\ match' = [match EXCEPT
                   !.lock = i,
                   !.commands[i].pc = IF match.current_match THEN "refused"
                                      ELSE "setup"]
    /\ UNCHANGED matchFrame

(* custom_5v5.py:976: the answer is sent and the lock released on return *)
Refused(i) ==
    /\ match.commands[i].pc = "refused"
    /\ match' = [match EXCEPT !.lock = 0, !.commands[i].pc = "returned"]
    /\ UNCHANGED matchFrame

(* The SetupView of invocation i still takes clicks *)
Open(i) ==
    /\ match.commands[i].pc = "setup"
    /\ ~match.commands[i].setup.stopped

(* custom_5v5.py:840-854 *)
ChooseBo(i, b) ==
    /\ Open(i)
    /\ match' = [match EXCEPT !.commands[i].setup.bestof = b]
    /\ UNCHANGED matchFrame

(* custom_5v5.py:856-864 *)
ToggleFearless(i) ==
    /\ Open(i)
    /\ match' = [match EXCEPT !.commands[i].setup.fearless = ~@]
    /\ UNCHANGED matchFrame

(* custom_5v5.py:866-874 *)
ToggleCaptains(i) ==
    /\ Open(i)
    /\ match' = [match EXCEPT !.commands[i].setup.captain_pick = ~@]
    /\ UNCHANGED matchFrame

(* custom_5v5.py:876-883 *)
SetupCancel(i) ==
    /\ Open(i)
    /\ match' = [match EXCEPT !.commands[i].setup.canceled = TRUE,
                              !.commands[i].setup.done = TRUE]
    /\ UNCHANGED matchFrame

(* custom_5v5.py:885-891 *)
SetupStart(i) ==
    /\ Open(i)
    /\ match' = [match EXCEPT !.commands[i].setup.done = TRUE]
    /\ UNCHANGED matchFrame

(* custom_5v5.py:831: 300 s without a click; SetupView defines no           *)
(* on_timeout, the one of discord.ui.View does nothing and the view is      *)
(* stopped                                                                  *)
SetupTimeout(i) ==
    /\ Open(i)
    /\ match' = [match EXCEPT !.commands[i].setup.stopped = TRUE]
    /\ UNCHANGED matchFrame

(* custom_5v5.py:983-1031: setup.done is set; a canceled setup returns,     *)
(* otherwise the JoinView is posted and becomes _current_match; the lock is *)
(* released on leaving the `async with`                                     *)
AfterSetup(i) ==
    /\ match.commands[i].pc = "setup"
    /\ match.commands[i].setup.done
    /\ match' = [match EXCEPT
                   !.lock = 0,
                   !.commands[i].pc = "returned",
                   !.current_match =
                       IF match.commands[i].setup.canceled THEN @ ELSE TRUE]
    /\ UNCHANGED matchFrame

(* custom_5v5.py:214-228, 483-484, 595-596, 691-692: the lobby is canceled  *)
(* or its teams are accepted                                                *)
MatchCleared ==
    /\ match.current_match
    /\ match' = [match EXCEPT !.current_match = FALSE]
    /\ UNCHANGED matchFrame

SetupNext ==
    \/ \E i \in Commands : Invoke(i)
    \/ \E i \in Commands : Enter(i)
    \/ \E i \in Commands : Refused(i)
    \/ \E i \in Commands, b \in BestOf : ChooseBo(i, b)
    \/ \E i \in Commands : ToggleFearless(i)
    \/ \E i \in Commands : ToggleCaptains(i)
    \/ \E i \in Commands : SetupCancel(i)
    \/ \E i \in Commands : SetupStart(i)
    \/ \E i \in Commands : SetupTimeout(i)
    \/ \E i \in Commands : AfterSetup(i)
    \/ MatchCleared

(* The event loop runs every task that can run and the timer of a view      *)
(* fires; nothing makes a user click                                        *)
SetupFairness ==
    \A i \in Commands :
        /\ WF_vars(Enter(i))
        /\ WF_vars(Refused(i))
        /\ WF_vars(AfterSetup(i))
        /\ WF_vars(SetupTimeout(i))

SetupSpec == SetupInit /\ [][SetupNext]_vars /\ SetupFairness

-----------------------------------------------------------------------------
(* Properties                                                               *)

Selections(game) ==
    game.bans_a \o game.bans_b \o game.picks_a \o game.picks_b

Picks(game) == Range(game.picks_a) \cup Range(game.picks_b)

(* Number of turns i < n of the table made for `side` with ban-ness is_ban *)
TurnsFor(n, side, is_ban) ==
    Cardinality({i \in 0..(n - 1) :
                    SideAt(i) = side /\ ((i \in BAN_INDEXES) = is_ban)})

(* C1: in every game the i-th recorded selection is made for side           *)
(* DRAFT_ORDER[i] and is a ban iff i is in BAN_INDEXES, and a game never    *)
(* holds more than the 20 selections of one draft: after n selections the   *)
(* four lists of the game hold exactly the first n turns of the table.      *)
C1_TurnOrder ==
    \A g \in 1..Len(games) :
        LET n == Len(Selections(games[g]))
        IN  /\ n <= Len(DRAFT_ORDER)
            /\ Len(games[g].bans_a) = TurnsFor(n, "A", TRUE)
            /\ Len(games[g].bans_b) = TurnsFor(n, "B", TRUE)
            /\ Len(games[g].picks_a) = TurnsFor(n, "A", FALSE)
            /\ Len(games[g].picks_b) = TurnsFor(n, "B", FALSE)

(* C2: in every state the picks and bans of a game are pairwise distinct,   *)
(* and no pick of a game is a champion that was in fearless_pool when the   *)
(* game started (the picks of the games before it).                         *)
C2_NoDuplicateSelection ==
    \A g \in 1..Len(games) :
        /\ Cardinality(Range(Selections(games[g]))) = Len(Selections(games[g]))
        /\ \A h \in 1..(g - 1) : Picks(games[g]) \cap Picks(games[h]) = {}

(* C8: a turn that ends by timeout selects a champion of the catalog that   *)
(* is neither among the picks and bans of the current game nor in           *)
(* fearless_pool.                                                           *)
C8_TimeoutFallbackLegal ==
    [][\A t \in TaskIds :
          (/\ tasks[t].pc = "draft"
           /\ random_pool(tasks[t].taken) # {}
           /\ Timeout(t))
          => LET c == random_champ(tasks[t].taken)
             IN  /\ c \in CHAMPS_CACHE
                 /\ c \notin Range(Selections(current_game))
                 /\ c \notin fearless_pool]_vars

(* C3: fearless_pool never loses an element and always equals the union of  *)
(* picks_a and picks_b over all games of the series so far.                 *)
C3_FearlessPool ==
    /\ [](fearless_pool = get_all_picked_champs)
    /\ [][fearless_pool \subseteq fearless_pool']_vars

(* A second game is being drafted after a report and a side swap *)
C3_Witness ==
    /\ Len(games) = 2
    /\ games[1].winner # "None"
    /\ captain_a = 2
    /\ Len(games[2].picks_a) > 0
    /\ Len(games[2].bans_a) > 0

(* C4: score_a + score_b equals the number of games whose winner is set,    *)
(* including after side swaps and tier extensions.                          *)
C4_ScoreInvariant ==
    score_a + score_b =
        Cardinality({g \in 1..Len(games) : games[g].winner # "None"})

(* A Bo1 extended to Bo3, sides swapped, second game reported *)
C4_Witness ==
    /\ \E v \in Views : tasks[v].kind = "bo1_end" /\ tasks[v].pc = "draft"
    /\ bo = 3
    /\ captain_a = 2
    /\ score_a + score_b = 1
    /\ Len(games) = 2

(* C10: swap_sides applied twice restores team_a, team_b, captain_a,        *)
(* captain_b, score_a and score_b; applied once it leaves bo, games and     *)
(* fearless_pool as they were.                                              *)
C10_SwapTwice ==
    LET s == SeriesState
        once == swap_sides(s)
        twice == swap_sides(once)
    IN  /\ twice.team_a = s.team_a /\ twice.team_b = s.team_b
        /\ twice.captain_a = s.captain_a /\ twice.captain_b = s.captain_b
        /\ twice.score_a = s.score_a /\ twice.score_b = s.score_b
        /\ once.bo = s.bo
        /\ once.games = s.games
        /\ once.fearless_pool = s.fearless_pool

(* The series after a swap was applied with unequal scores *)
C10_Witness ==
    /\ captain_a = 2
    /\ team_a = TeamB0
    /\ score_a # score_b
    /\ fearless_pool # {}

(* C7: the winner of a game is set once, and a report that arrives for a    *)
(* game whose winner is already set leaves score_a, score_b and the games   *)
(* unchanged and is answered with a rejection.                              *)
C7_SingleReport ==
    [][/\ \A g \in 1..Len(games) :
              games[g].winner # "None" => games'[g].winner = games[g].winner
       /\ \A v \in Views :
              (/\ tasks[v].pc = "defer"
               /\ current_game.winner # "None"
               /\ Report(v))
              => /\ score_a' = score_a
                 /\ score_b' = score_b
                 /\ games' = games
                 /\ tasks'[v].resp \in {"already_reported", "unknown_series"}]_vars

(* A second report for a reported game has been rejected *)
C7_Witness ==
    /\ \E v \in Views : tasks[v].resp = "already_reported"
    /\ series_by_thread
    /\ score_a + score_b >= 1

Target == (bo \div 2) + 1
NextTier == IF bo = 1 THEN 3 ELSE 5

(* C6: when the reported score reaches the target, a Bo1 offers Bo3, a Bo3  *)
(* offers Bo5 and a Bo5 ends in a victory without offer; a declined or      *)
(* timed out offer ends the series as a victory of the reported side; an    *)
(* accepted offer sets bo to the next tier, keeps the scores, and goes on   *)
(* to the side choice, the ready check and a new game.                      *)
C6_TierEnd ==
    [][\A v \in Views :
        /\ (/\ tasks[v].pc = "meta"
            /\ score_a = Target \/ score_b = Target
            /\ AfterMeta(v))
           => IF bo = 5
              THEN /\ tasks'[v].pc = "delete"
                   /\ outcome' = tasks[v].side
                   /\ ~series_by_thread'
              ELSE /\ tasks'[v].pc = "offer"
                   /\ ~IsTied(tasks'[v].kind)
                   /\ NextBo(tasks'[v].kind) = NextTier
                   /\ UNCHANGED <<bo, series_by_thread, outcome>>
        /\ (/\ tasks[v].pc = "offer"
            /\ ~IsTied(tasks[v].kind)
            /\ ContinueResolved(v))
           => IF tasks[v].go_next = "True"
              THEN /\ bo' = NextTier
                   /\ tasks'[v].pc = "side_choice"
                   /\ UNCHANGED <<score_a, score_b, series_by_thread, outcome>>
              ELSE /\ tasks'[v].pc = "delete"
                   /\ outcome' = tasks[v].side
                   /\ ~series_by_thread'
                   /\ UNCHANGED <<bo, score_a, score_b>>
        /\ (tasks[v].pc = "side_choice" /\ tasks'[v].pc # "side_choice")
           => tasks'[v].pc = "ready"
        /\ (tasks[v].pc = "ready" /\ tasks'[v].pc # "ready")
           => /\ tasks'[v].pc = "draft"
              /\ games' = Append(games, Game)]_vars

(* A Bo3 won 2-0 was extended to Bo5 and its third game is being drafted *)
C6_Witness ==
    /\ \E v \in Views : tasks[v].pc = "draft" /\ tasks[v].kind = "bo3_end"
    /\ bo = 5
    /\ Len(games) = 3
    /\ score_a = 2 \/ score_b = 2

Midpoint ==
    \/ bo = 3 /\ score_a = 1 /\ score_b = 1
    \/ bo = 5 /\ score_a = 2 /\ score_b = 2

(* C5: when the scores after a report are tied at the midpoint of bo, a     *)
(* belle is offered before any side choice or new game, and a declined      *)
(* belle ends the series as tied, without winner, removed from the          *)
(* registry.                                                                *)
C5_BelleAtMidpoint ==
    [][\A v \in Views :
        /\ (tasks[v].pc = "meta" /\ Midpoint /\ AfterMeta(v))
           => tasks'[v].pc = "offer" /\ IsTied(tasks'[v].kind)
        /\ (/\ tasks[v].pc = "offer"
            /\ IsTied(tasks[v].kind)
            /\ tasks[v].go_next # "True"
            /\ ContinueResolved(v))
           => outcome' = "tie" /\ ~series_by_thread']_vars

C11_FinalizedForGood ==
    [][/\ outcome' # outcome => ~series_by_thread'
       /\ ~series_by_thread => /\ ~series_by_thread'
                               /\ Len(games') = Len(games)]_vars

(* A Bo3 extension was declined after two games; the callback is about to   *)
(* delete its ResultView message                                            *)
C11_Witness ==
    /\ ~series_by_thread
    /\ outcome \in {"A", "B"}
    /\ Len(games) = 2
    /\ \E v \in Views : tasks[v].pc = "delete" /\ tasks[v].kind = "bo3_end"

(* C12: a win report for a series that is no longer in the registry is      *)
(* rejected as a no-op: scores, games (winners included) and bo are         *)
(* unchanged, and the callback goes on to delete its message without        *)
(* starting a game.                                                         *)
C12_UnknownSeriesNoOp ==
    [][\A v \in Views :
          (tasks[v].pc = "defer" /\ ~series_by_thread /\ Report(v))
          => /\ UNCHANGED <<score_a, score_b, games, bo, fearless_pool>>
             /\ tasks'[v].resp = "unknown_series"
             /\ tasks'[v].pc = "delete"]_vars

(* A click on a ResultView left over after the series was finalized has     *)
(* been answered                                                            *)
C12_Witness ==
    /\ \E v \in Views : tasks[v].resp = "unknown_series"
    /\ outcome # "None"

(* C13: the winner of a game is only set once its 20 slots are recorded,    *)
(* nothing is appended to a game whose winner is set, and no win report is  *)
(* applied while a draft loop of the series is running.                     *)
C13_ReportAfterDraft ==
    /\ [](\A g \in 1..Len(games) :
            games[g].winner # "None"
            => Len(Selections(games[g])) = Len(DRAFT_ORDER))
    /\ [][\A g \in 1..Len(games) :
            /\ games[g].winner # "None"
               => Selections(games'[g]) = Selections(games[g])
            /\ (games[g].winner = "None" /\ games'[g].winner # "None")
               => \A t \in TaskIds : tasks[t].pc # "draft"]_vars

(* The captain of the side that lost the game just reported *)
LosingCaptain == IF current_game.winner = "A" THEN captain_b ELSE captain_a

(* C14: after a game that does not end the series the side choice is        *)
(* offered to the captain of the side that lost it, and only that captain   *)
(* can answer; swap exchanges team_a/team_b, captain_a/captain_b and        *)
(* score_a/score_b, keep changes nothing, and a timeout counts as keep.     *)
C14_SideChoice ==
    /\ [](\A v \in Views :
            tasks[v].pc = "side_choice"
            => /\ tasks[v].loser = LosingCaptain
               /\ \A user \in Users, swap \in BOOLEAN :
                     ENABLED SideClick(v, user, swap) => user = LosingCaptain)
    /\ [][\A v \in Views :
            /\ (tasks[v].pc = "meta" /\ ~finished /\ AfterMeta(v))
               => tasks'[v].pc = "side_choice"
            /\ (tasks[v].pc = "side_choice" /\ SideTimeout(v))
               => tasks'[v].swap_chosen = "False"
            /\ (tasks[v].pc = "side_choice" /\ tasks'[v].pc # "side_choice")
               => IF tasks[v].swap_chosen = "True"
                  THEN /\ team_a' = team_b /\ team_b' = team_a
                       /\ captain_a' = captain_b /\ captain_b' = captain_a
                       /\ score_a' = score_b /\ score_b' = score_a
                       /\ UNCHANGED <<bo, games, fearless_pool>>
                  ELSE UNCHANGED series]_vars

(* The losing captain chose to swap after a game reported for A *)
C14_Witness ==
    /\ \E v \in Views : tasks[v].pc = "ready" /\ tasks[v].side = "A"
    /\ captain_a = 2
    /\ score_a = 0 /\ score_b = 1
    /\ team_a = TeamB0

(* C15: a game is appended only by a handler whose ready check is over,     *)
(* the ready check is only posted once the side choice is resolved, and it  *)
(* is over only when both current captains are marked ready at once or its  *)
(* timeout has elapsed.                                                     *)
C15_ReadyBeforeNewGame ==
    [][/\ games' # games /\ Len(games') # Len(games)
          => \E v \in Views : /\ tasks[v].pc = "ready"
                              /\ tasks[v].done
                              /\ tasks'[v].pc = "draft"
                              /\ games' = Append(games, Game)
       /\ \A v \in Views :
            /\ (tasks[v].pc # "ready" /\ tasks'[v].pc = "ready")
               => /\ tasks[v].pc = "side_choice"
                  /\ tasks[v].done
                  /\ tasks[v].swap_chosen \in {"True", "False"}
            /\ (tasks[v].pc = "ready" /\ ~tasks[v].done /\ tasks'[v].done)
               => \/ ReadyTimeout(v)
                  \/ {captain_a, captain_b} \subseteq tasks'[v].ready]_vars

(* After a swap, both captains are marked ready and the ready check is over *)
C15_Witness ==
    /\ \E v \in Views : /\ tasks[v].pc = "ready"
                        /\ tasks[v].done
                        /\ tasks[v].ready = {captain_a, captain_b}
    /\ captain_a = 2

(* C16: a captain message that resolves to no champion, or to a champion    *)
(* already picked or banned in the current game or present in               *)
(* fearless_pool, is not accepted: it is no step of the draft, so turn      *)
(* pointer, picks, bans and fearless_pool stay as they are.                 *)
C16_RejectedKeepsTurn ==
    \A t \in TaskIds :
        tasks[t].pc = "draft"
        => \A cand \in Typed(tasks[t].taken) :
              (\/ cand = NoChamp
               \/ cand \in Range(Selections(current_game))
               \/ cand \in fearless_pool)
              => ~ENABLED Message(t, tasks[t].cap, cand)

(* C17: during a turn only a message of the captain of the side whose turn  *)
(* it is can be accepted as the turn's selection.                           *)
C17_OnlyActingCaptain ==
    \A t \in TaskIds :
        tasks[t].pc = "draft"
        => \A author \in Users :
              (\E cand \in Typed(tasks[t].taken) :
                   ENABLED Message(t, author, cand))
              => author = CaptainOf(SideAt(tasks[t].ptr), captain_a, captain_b)

(* C18: recording a turn appends the champion to exactly one list of the    *)
(* current game, the bans of the acting side on a ban slot and its picks on *)
(* a pick slot, and leaves the other three lists, the winner and the        *)
(* earlier games unchanged; fearless_pool gains the champion iff the slot   *)
(* is a pick.                                                               *)
C18_RecordOneList ==
    [][\A t \in TaskIds :
          (/\ tasks[t].pc = "draft"
           /\ \/ tasks'[t].pc = "draft" /\ tasks'[t].ptr = tasks[t].ptr + 1
              \/ tasks'[t].pc \in {"done", "delete"})
          => LET side == SideAt(tasks[t].ptr)
                 is_ban == tasks[t].ptr \in BAN_INDEXES
                 old == current_game
                 new == games'[Len(games)]
             IN  /\ Len(games') = Len(games)
                 /\ \A g \in 1..(Len(games) - 1) : games'[g] = games[g]
                 /\ new.winner = old.winner
                 /\ \E c \in CHAMPS_CACHE :
                      /\ new.bans_a = IF is_ban /\ side = "A"
                                      THEN Append(old.bans_a, c) ELSE old.bans_a
                      /\ new.bans_b = IF is_ban /\ side = "B"
                                      THEN Append(old.bans_b, c) ELSE old.bans_b
                      /\ new.picks_a = IF ~is_ban /\ side = "A"
                                       THEN Append(old.picks_a, c) ELSE old.picks_a
                      /\ new.picks_b = IF ~is_ban /\ side = "B"
                                       THEN Append(old.picks_b, c) ELSE old.picks_b
                      /\ fearless_pool' = IF is_ban THEN fearless_pool
                                          ELSE fearless_pool \cup {c}]_vars

(* a champion banned in game 1 and never picked there is picked in game 2 *)
C18_Witness ==
    /\ Len(games) >= 2
    /\ \E c \in Range(games[1].bans_a) \cup Range(games[1].bans_b) :
          /\ c \notin Picks(games[1])
          /\ c \in Picks(games[2])

(* C19: every game but the last has a winner, so at most one game lacks a   *)
(* winner and it is the current game; a game is added only by appending a   *)
(* fresh game when the current game's winner is set.                        *)
C19_OneOpenGame ==
    /\ [](\A g \in 1..(Len(games) - 1) : games[g].winner # "None")
    /\ [][Len(games') # Len(games)
            => /\ current_game.winner # "None"
               /\ games' = Append(games, Game)]_vars

C19_Witness ==
    /\ Len(games) = 3
    /\ current_game.winner = "None"
    /\ games[1].winner # "None" /\ games[2].winner # "None"
    /\ \E t \in TaskIds : tasks[t].pc = "draft" /\ tasks[t].ptr > 0

(* C20: bo is always 1, 3 or 5 and changes only when the captains accept    *)
(* the offer at the end of a Bo1 (1 to 3) or of a Bo3 (3 to 5); every       *)
(* other step, a declined offer included, leaves it unchanged, so it never  *)
(* decreases.                                                               *)
C20_BoTiers ==
    /\ [](bo \in {1, 3, 5})
    /\ [][bo' # bo
            => \E v \in Views :
                  /\ tasks[v].pc = "offer"
                  /\ tasks[v].done
                  /\ tasks[v].go_next = "True"
                  /\ tasks'[v].pc = "side_choice"
                  /\ \/ tasks[v].kind = "bo1_end" /\ bo = 1 /\ bo' = 3
                     \/ tasks[v].kind = "bo3_end" /\ bo = 3 /\ bo' = 5]_vars

(* a Bo3 won after two games has been extended to a Bo5 *)
C20_Witness ==
    /\ bo = 5
    /\ Len(games) = 2
    /\ \E v \in Views : tasks[v].pc = "side_choice" /\ tasks[v].kind = "bo3_end"

(* C21: a series created through the lobby has captain_a in team_a and      *)
(* captain_b in team_b, at creation and after swap_sides.                   *)
C21_CaptainsInTeams ==
    phase = "draft"
    => captain_a \in Range(team_a) /\ captain_b \in Range(team_b)

(* C27: the turn lasts 2 seconds exactly when the two teams hold one real   *)
(* participant and generate_bot_id substitutes otherwise, and 60 seconds    *)
(* in every other series.                                                   *)
Substitutes(ta, tb) == {u \in Range(ta) \cup Range(tb) : u >= BOT_ID_START}

RealParticipants(ta, tb) == (Range(ta) \cup Range(tb)) \ Substitutes(ta, tb)

C27_SoloTurnTime ==
    phase = "draft"
    => /\ TURN_TIME \in {2, 60}
       /\ TURN_TIME = 2 <=> Cardinality(RealParticipants(team_a, team_b)) = 1

(* C22: when a catalog is cached, a failed refresh is not raised to         *)
(* on_start_draft: the call returns and the draft starts with the stale     *)
(* catalog.                                                                 *)
C22_StaleCatalogServes ==
    \A l \in DOMAIN loaders :
        loaders[l].caller = "start_draft" /\ loaders[l].had_cache
        => loaders[l].pc # "raised"

(* C23: at most one call of load_champs is fetching or rebuilding at a time *)
Refreshing(l) == loaders[l].pc \in {"version", "fetch", "exit"}

C23_OneRefresh ==
    Cardinality({l \in DOMAIN loaders : Refreshing(l)}) <= 1

(* C24: while load_champs is in progress, the champion set and the alias    *)
(* table a reader of a running draft sees belong to the same refresh.       *)
DraftRunning ==
    \E l \in DOMAIN loaders :
        loaders[l].caller = "start_draft" /\ loaders[l].pc = "returned"

C24_OneCatalogSeen ==
    DraftRunning /\ (\E l \in DOMAIN loaders : Refreshing(l))
    => \E ver \in 1..MaxVersion :
          /\ CHAMPS_CACHE = Catalog(ver)
          /\ ALIASES = BuildAliases(Catalog(ver))

(* C28: canonicalize returns the id of the exact key when the normalized    *)
(* text is a key of the alias table; the normalized form of every champion  *)
(* id resolves to that id; every manual alias resolves to its manual        *)
(* target, also where a 3-character abbreviation was generated for it.      *)
Key(name) == NoSpace(Lower(name))

C28_ExactMatchWins ==
    /\ canon.called /\ Key(canon.name) \in DOMAIN ALIASES
       => canon.id = ALIASES[Key(canon.name)]
    /\ \A i \in 1..Len(CHAMPS_CACHE) :
          canonicalize(Key(CHAMPS_CACHE[i])) = {CHAMPS_CACHE[i]}
    /\ \A k \in DOMAIN manual : canonicalize(k) = {manual[k]}

(* "wu kong" has been resolved to MonkeyKing by a table in which the        *)
(* generated abbreviation "cho" was Chomp and the manual alias replaced it  *)
C28_Witness ==
    /\ canon.called
    /\ canon.name = <<"w", "u", " ", "k", "o", "n", "g">>
    /\ canon.id = MonkeyKing
    /\ <<"c", "h", "o">> \in DOMAIN Generated(CHAMPS_CACHE, Len(CHAMPS_CACHE)).al
    /\ Generated(CHAMPS_CACHE, Len(CHAMPS_CACHE)).al[<<"c", "h", "o">>] = Chomp
    /\ ALIASES[<<"c", "h", "o">>] = Chogath

(* C25: a callback whose statistics update has failed goes on as one whose  *)
(* update has succeeded: the winner and the scores stay recorded and the    *)
(* same handler of _report runs; a rejected report starts no update, and    *)
(* the statistics change only when an update stores them.                   *)
InUpdate(pc) == pc \in {"meta", "meta_save"}

C25_FailureKeepsProgress ==
    [][/\ \A v \in Views :
            /\ InUpdate(tasks[v].pc) /\ ~InUpdate(tasks'[v].pc)
               => /\ Proceed(v)
                  /\ UNCHANGED series
                  /\ games[meta_calls[v].g].winner = tasks[v].side
            /\ /\ tasks[v].pc = "defer" /\ tasks'[v].pc # "defer"
               /\ SeriesUnknown \/ AlreadyReported
               => tasks'[v].pc = "delete" /\ UNCHANGED metaVars
       /\ META' # META
          => \/ other.pc = "save"
             \/ \E v \in Views : tasks[v].pc = "meta_save"]_vars

(* An update of the series has failed, the next game has been started, and  *)
(* a report has been rejected                                               *)
C25_Witness ==
    /\ meta_warnings > 0
    /\ other.reported = 0
    /\ Len(games) = 2
    /\ \E v \in Views :
          tasks[v].resp \in {"unknown_series", "already_reported"}

(* C29: a button of the draft acts only for its authorized user: a win      *)
(* report and a ContinueView decision for captain_a or captain_b, a side    *)
(* choice for the losing captain, each ready toggle for the captain of its  *)
(* side; for any other user no step of the button is possible, so the       *)
(* series and the view stay as they are.                                    *)
C29_AuthorizedOnly ==
    \A v \in Views, user \in Users :
        /\ (\E side \in {"A", "B"} : ENABLED Click(v, user, side))
           => user \in {captain_a, captain_b}
        /\ (\E go \in BOOLEAN : ENABLED ContinueClick(v, user, go))
           => user \in {captain_a, captain_b}
        /\ (\E swap \in BOOLEAN : ENABLED SideClick(v, user, swap))
           => user = LosingCaptain
        /\ ENABLED ReadyClick(v, user, "A") => user = captain_a
        /\ ENABLED ReadyClick(v, user, "B") => user = captain_b

(* A CaptainsReadyView holds the ready of captain A and a ResultView       *)
(* accepts a report of captain B, while user 3, who is no captain, can act  *)
(* on neither                                                               *)
C29_Witness ==
    /\ 3 \notin {captain_a, captain_b}
    /\ \E v \in Views : tasks[v].pc = "ready" /\ tasks[v].ready = {captain_a}
    /\ \A v \in Views :
          /\ \A side \in {"A", "B"} : ~ENABLED Click(v, 3, side)
          /\ \A button \in {"A", "B"} : ~ENABLED ReadyClick(v, 3, button)
    /\ \E v \in Views, side \in {"A", "B"} : ENABLED Click(v, captain_b, side)

(* C26: when no update is running and none has failed, every champion's    *)
(* pick, ban and win counter is the sum of the contributions of the games   *)
(* reported by the two series.                                              *)
Occurrences(cids, c) == Cardinality({i \in 1..Len(cids) : cids[i] = c})

Reported == {n \in 1..Len(games) : games[n].winner # "None"}

RECURSIVE Sum(_, _)
Sum(f, S) ==
    IF S = {} THEN 0
    ELSE LET n == CHOOSE m \in S : TRUE IN f[n] + Sum(f, S \ {n})

Quiet == DOMAIN meta_calls = {}

C26_NoLostUpdate ==
    Quiet /\ meta_warnings = 0
    => \A c \in CHAMPS_CACHE :
          /\ Get(META.picks, c) =
                Sum([n \in Reported |->
                        Occurrences(games[n].picks_a \o games[n].picks_b, c)],
                    Reported)
                + other.reported
                  * Occurrences(OtherGame.picks_a \o OtherGame.picks_b, c)
          /\ Get(META.bans, c) =
                Sum([n \in Reported |->
                        Occurrences(games[n].bans_a \o games[n].bans_b, c)],
                    Reported)
                + other.reported
                  * Occurrences(OtherGame.bans_a \o OtherGame.bans_b, c)
          /\ Get(META.wins, c) =
                Sum([n \in Reported |->
                        Occurrences(IF games[n].winner = "A"
                                    THEN games[n].picks_a
                                    ELSE games[n].picks_b, c)],
                    Reported)
                + other.reported * Occurrences(OtherGame.picks_a, c)

(* C30: _request sends at most max_retries GETs; a 429 with attempts left   *)
(* is followed by a wait and another GET; a 200 ends the call with the JSON *)
(* body; when every GET is answered 429 the call raises RateLimitError      *)
(* after exactly max_retries GETs; a 404 ends the call with None at once.   *)
Last(seq) == seq[Len(seq)]

All429(codes) == \A i \in 1..Len(codes) : codes[i] = 429

C30_RetryOn429 ==
    /\ [](request.pc # "none"
          => /\ Len(request.codes) <= request.max_retries
             /\ request.pc = "done" /\ request.codes # <<>>
                => /\ Last(request.codes) = 200 <=> request.result = "json"
                   /\ Last(request.codes) = 404 <=> request.result = "null"
                   /\ All429(request.codes)
                      => request.result = "RateLimitError"
                   /\ request.result = "RateLimitError"
                      => /\ Last(request.codes) = 429
                         /\ Len(request.codes) = request.max_retries
             /\ request.pc # "done" /\ request.codes # <<>>
                => Last(request.codes) \notin {200, 404})
    /\ [][/\ request.pc = "get" /\ Len(request'.codes) > Len(request.codes)
             /\ Last(request'.codes) = 429
             /\ request.attempt < request.max_retries - 1
             => request'.pc = "sleep" /\ request'.wait >= 1
          /\ request.pc = "sleep"
             => /\ request'.pc = "get"
                /\ request'.attempt = request.attempt + 1
                /\ request'.codes = request.codes]_vars

(* A call with max_retries = 3 was answered 429, waited, was answered 429   *)
(* again, waited, and was then answered 200                                 *)
C30_Witness ==
    /\ request.pc = "done"
    /\ request.max_retries = 3
    /\ request.codes = <<429, 429, 200>>
    /\ request.result = "json"

(* Number of GETs sent in the window of QuotaWindow seconds that ends at t *)
GetsIn(t) ==
    Cardinality({i \in DOMAIN riot.gets :
                    riot.gets[i] > t - QuotaWindow /\ riot.gets[i] <= t})

(* C31: in any interval of _quota_window seconds the client sends at most   *)
(* _quota_max GETs, every attempt of _request counted, whatever the         *)
(* interleaving of the callers                                              *)
C31_QuotaRespected == \A t \in 0..riot.now : GetsIn(t) <= QuotaMax

(* The score counter of the side that captain cap's roster holds *)
ScoreOf(cap) == IF captain_a = cap THEN score_a ELSE score_b

(* This step reports the current game as won by the side cap's roster holds *)
WonBy(cap) ==
    /\ Len(games') = Len(games)
    /\ games[Len(games)].winner = "None"
    /\ games'[Len(games)].winner # "None"
    /\ cap = IF games'[Len(games)].winner = "A" THEN captain_a ELSE captain_b

(* C32: scores follow the rosters: the counter of the side a roster holds   *)
(* starts at 0, grows by one exactly in the steps that report a win of that *)
(* roster and is carried along by every side swap, so it always equals the  *)
(* number of games the roster has won                                       *)
C32_ScoresFollowRosters ==
    /\ score_a = 0 /\ score_b = 0
    /\ [][\A cap \in {1, 2} :
            ScoreOf(cap)' = ScoreOf(cap) + (IF WonBy(cap) THEN 1 ELSE 0)]_vars

(* The roster of captain 1 won the first game on side A, the sides were     *)
(* swapped, and it won the second game on side B                            *)
C32_Witness ==
    /\ Len(games) = 2
    /\ games[1].winner = "A"
    /\ games[2].winner = "B"
    /\ captain_b = 1
    /\ score_b = 2
    /\ score_a = 0

(* A _draft_loop of the series is suspended at one of its turns *)
LoopRunning == \E t \in TaskIds : tasks[t].pc = "draft"

(* The current game is drafted, its ResultView is posted and not clicked *)
ReportAwaited ==
    /\ Len(Selections(current_game)) = Len(DRAFT_ORDER)
    /\ current_game.winner = "None"
    /\ \E v \in Views : tasks[v].alive /\ tasks[v].pc = "idle"

(* C33: while the series is registered and a draft is running or a win      *)
(* report is awaited both scores are below bo div 2 + 1; no score exceeds   *)
(* the target of the current tier and len(games) <= bo <= 5                 *)
C33_ScoresBelowTarget ==
    /\ series_by_thread /\ (LoopRunning \/ ReportAwaited)
       => score_a < Target /\ score_b < Target
    /\ score_a <= Target /\ score_b <= Target
    /\ Len(games) <= bo
    /\ bo <= 5

(* This step is _handle_series_victory run by the callback of view v *)
Victory(v) ==
    /\ tasks[v].pc \in {"meta", "offer"}
    /\ tasks'[v].pc = "delete"
    /\ ~IsTied(tasks'[v].kind)

(* The counter of a side *)
ScoreAt(side) == IF side = "A" THEN score_a ELSE score_b

Opposite(side) == IF side = "A" THEN "B" ELSE "A"

(* C34: when a series is finalized as a victory of side S, the score of S   *)
(* is bo div 2 + 1 and above the other score, and the roster announced is   *)
(* the one that holds side S                                                *)
C34_VictoryScore ==
    [][\A v \in Views :
        Victory(v)
        => LET S == tasks[v].side
           IN  /\ outcome' = S
               /\ ScoreAt(S) = Target
               /\ ScoreAt(S) > ScoreAt(Opposite(S))
               /\ CaptainOf(S, captain_a, captain_b) \in Range(winners(S))
               /\ UNCHANGED series]_vars

(* A Bo5 was won outright after the sides had been swapped *)
C34_Witness ==
    /\ ~series_by_thread
    /\ outcome \in {"A", "B"}
    /\ \E v \in Views : tasks[v].kind = "victory" /\ tasks[v].pc = "delete"
    /\ bo = 5
    /\ captain_a = 2

(* C35: the decision of a ContinueView is fixed by the first captain click, *)
(* or by the timeout when nobody clicked: once go_next is set, no later     *)
(* click and no timeout changes the value the handler reads                 *)
C35_FirstClickDecides ==
    [][\A v \in Views :
        /\ tasks[v].pc = "offer"
        /\ tasks[v].go_next # "None"
        /\ tasks'[v].pc = "offer"
        => tasks'[v].go_next = tasks[v].go_next]_vars

C37_ShowConfirmOnce == calls.posted <= 1

(* team_a, team_b and remaining split the players: no member twice, no      *)
(* member in two of them, nobody missing; the captains lead their teams     *)
Partition(ta, tb, remaining, cap_a, cap_b) ==
    /\ Cardinality(Range(ta)) = Len(ta)
    /\ Cardinality(Range(tb)) = Len(tb)
    /\ Range(ta) \cap Range(tb) = {}
    /\ Range(ta) \cap remaining = {}
    /\ Range(tb) \cap remaining = {}
    /\ Range(ta) \cup Range(tb) \cup remaining = join.players
    /\ Len(ta) <= TeamSize /\ Len(tb) <= TeamSize
    /\ cap_a \in Range(ta) /\ cap_b \in Range(tb)

(* C38: in CaptainPickView, after any picks and captain rerolls, team_a,    *)
(* team_b and remaining are pairwise disjoint and cover the players, each   *)
(* team has at most TeamSize members and holds its captain; the ReadyView   *)
(* is launched by the pick that fills both teams and by no other step       *)
C38_CaptainPick ==
    /\ [](confirm.kind = "captains"
          => /\ Partition(confirm.team_a, confirm.team_b, confirm.remaining,
                          confirm.cap_a, confirm.cap_b)
             /\ ~(Len(confirm.team_a) = TeamSize
                  /\ Len(confirm.team_b) = TeamSize))
    /\ [][confirm.kind = "captains" /\ phase' # phase
          => /\ phase' = "ready"
             /\ Len(ready_view'.team_a) = TeamSize
             /\ Len(ready_view'.team_b) = TeamSize
             /\ Partition(ready_view'.team_a, ready_view'.team_b, {},
                          ready_view'.cap_a, ready_view'.cap_b)
             /\ ready_view'.cap_a = confirm.cap_a
             /\ ready_view'.cap_b = confirm.cap_b
             /\ confirm.remaining \subseteq
                    Range(ready_view'.team_a) \cup Range(ready_view'.team_b)]_vars

(* Both captains have picked their teams and the ReadyView is posted *)
C38_Witness ==
    /\ phase = "ready"
    /\ join.captain_pick
    /\ Len(ready_view.team_a) = TeamSize
    /\ Len(ready_view.team_b) = TeamSize
    /\ ready_view.team_a[1] = ready_view.cap_a
    /\ ready_view.team_a[TeamSize] # Creator

(* C39: for one ReadyView on_ready is invoked at most once, and only with   *)
(* both ready flags true, whatever the order of the two button callbacks;   *)
(* a ready flag that is true stays true                                     *)
C39_ReadyOnce ==
    /\ [][phase' = "dispatched" /\ phase # "dispatched"
          => /\ phase = "ready"
             /\ ready_view'.ready_a /\ ready_view'.ready_b]_vars
    /\ [][(phase = "dispatched" \/ phase = "draft")
          => (phase' = "dispatched" \/ phase' = "draft")]_vars
    /\ [][phase = "draft" => phase' = "draft"]_vars
    /\ [][ready_view.kind = "ready" /\ ready_view'.kind = "ready"
          => /\ ready_view.ready_a => ready_view'.ready_a
             /\ ready_view.ready_b => ready_view'.ready_b]_vars
    /\ [][ready_view.kind = "ready" /\ ready_view'.kind # "ready"
          => phase = "dispatched" /\ AllReady(ready_view)]_vars

(* Both captains have clicked and the second click made on_ready run *)
C39_Witness ==
    /\ phase = "dispatched"
    /\ ready_view.ready_a /\ ready_view.ready_b
    /\ ready_view.cap_a # Creator

(* C40: every /5v5 invocation that holds the match lock releases it in the  *)
(* end, also when the organizer presses neither Start nor Cancel and the    *)
(* SetupView times out, so no later invocation waits for the lock forever   *)
C40_LockReleased ==
    \A i \in Commands :
        /\ (match.lock = i) ~> (match.lock # i)
        /\ (match.commands[i].pc = "lock") ~> (match.commands[i].pc # "lock")

=============================================================================
